---------------------------- MODULE Spec2Model ----------------------------
(***************************************************************************)
(* A model of the agent orchestration core of ptc-cortex:                  *)
(*   - the tool registry (lib/tools.ts) and the blog database tool         *)
(*     (getDatabaseSchema / executeReadOnlyQuery),                         *)
(*   - the session chat endpoint and the stateless v1 endpoint, which      *)
(*     translate the events of a LangGraph ReAct agent into an SSE         *)
(*     stream,                                                             *)
(*   - the lazily initialised knowledge base (lib/rag.ts).                 *)
(*                                                                         *)
(* Three specifications share the variables; each one leaves the           *)
(* variables of the other two components at their initial values.          *)
(*   SpecTools : one execution of one registry tool                        *)
(*   SpecChat  : one request to a chat endpoint                            *)
(*   SpecRag   : concurrent searchKnowledge callers                        *)
(***************************************************************************)
EXTENDS Integers, Sequences, FiniteSets, TLC

VARIABLES
    \* ---- tool execution (SpecTools) ----
    toolName,       \* the registry tool being executed
    sqlArg,         \* the sql argument (a sequence of characters)
    toolPc,         \* "ready" | "waiting" (external call in flight) | "done"
    pending,        \* the external call the tool is waiting for
    toolResult,     \* what execute produced: [kind, tag, rows, sent]
    svcFailure,     \* what failed in the service during the execution
    dbLog,          \* the statements sent to the database, in order
    \* ---- chat request (SpecChat) ----
    pc,             \* position of the POST handler
    req,            \* the request options
    tools,          \* names of the tools bound to the agent
    agent,          \* state of the ReAct agent graph
    out,            \* events enqueued on the response stream, in order
    hs,             \* local variables of the stream handler
    db,             \* messages persisted for the session
    \* ---- knowledge base (SpecRag) ----
    isInitialized,
    isInitializing,
    bm25Chunks,     \* number of BM25 chunks held
    vectorStore,    \* "null" | "built"
    useVectorSearch,
    cpc,            \* position of each searchKnowledge caller
    cres,           \* the searchKnowledge call that settled last, and how
    builds,         \* number of builds started so far
    corpus,         \* BM25 scoring: the texts of the chunks
    query,          \* BM25 scoring: the query text
    bmPc,           \* BM25 scoring: "ready" before the search, "done" after
    bmHits,         \* BM25 scoring: the chunks bm25Search returns
    bmRet,          \* BM25 scoring: what searchKnowledge returns
    tableInitialized, \* long-memory.ts: the table has been created
    mems,           \* rows of chat_long_memories, in insertion order (id = index)
    memLast,        \* the long-memory call that settled last, and its result
    msgs,           \* rows of the messages table, in insertion order (id = index)
    msgLast,        \* the last getRecentMessages call and the rows it returned
    mcpServers,     \* enabled MCP servers of the user: the set of their names
    mcpRawTools,    \* the raw tool names every connected server exposes
    mcpWebSearch,   \* webSearchEnabled of the request
    mcpPc,          \* "ready" before getMcpTools and the merge, "done" after
    mcpLoaded,      \* the raw tools getMcpTools loaded, as [server, tool]
    toolSet,         \* the names of the tools handed to createAgent
    \* ---- plain-text chat route and v1 endpoint: what the caller receives (SpecEmit) ----
    emEndpoint,   \* "plain" (api/chat) or "v1"
    emPc,   \* position of the agent run and of the handler
    emRound,   \* number of the model response being streamed
    emH,   \* lastAIContent, fullReply, isToolCalling, toolUsed
    emSent,   \* what the caller has received, in order: [kind, text]
    emStored,   \* the assistant message handed to addMessage, if any
    emTerminal,   \* the accumulated text of the response without tool calls
    emToolRounds,   \* the responses that carried tool calls
    \* ---- sessions and messages per user (SpecIso) ----
    chatSessions,   \* rows of chat_sessions: session id -> [user_id, state]
    chatMessages,   \* rows of chat_messages: [id, session_id, by]
    readBy,   \* for each user, the message rows the API has returned to them
    listedTo,   \* for each user, the sessions the API has listed to them
    \* ---- afterToolCall of the MCP client (SpecAfter) ----
    mcpResult,   \* the result an MCP tool returned: [shape, blocks / text / data]
    saveWorks,   \* whether saveBase64Image succeeds during this call
    afterPc,   \* "ready" before afterToolCall, "done" after
    handed,   \* the text handed to the model: a sequence of runs [kind, n]
    \* ---- MCP connections of one chat request (SpecClean) ----
    clPc,   \* position of the chat request
    enabled,   \* the enabled MCP servers of the user
    tried,   \* the servers getTools has dealt with
    openConns,   \* the servers with an open connection
    mcpReturn,   \* what getMcpTools returned: [tools, cleanup]
    mcpCleanup,   \* the route's mcpCleanup: "null", "noop" or "close"
    cleanupCalled,   \* mcpCleanup() has been called
    \* ---- the browser reading the event stream (SpecSse) ----
    events,   \* the types of the events the server generates, in order
    delivered,   \* number of characters of the stream the network has delivered
    ssePc,   \* "reading", "ended" (read reports done) or "failed" (read rejects)
    buffer,   \* sendMessage: text received and not yet parsed
    applied,   \* the events applied so far, in order (their positions in events)
    shown   \* the assistant message on screen: [present, msg]

toolVars == <<toolName, sqlArg, toolPc, pending, toolResult, svcFailure, dbLog>>
chatVars == <<pc, req, tools, agent, out, hs, db>>
ragVars == <<isInitialized, isInitializing, bm25Chunks, vectorStore,
            useVectorSearch, cpc, cres, builds>>
bmVars == <<corpus, query, bmPc, bmHits, bmRet>>
memVars == <<tableInitialized, mems, memLast>>
msgVars == <<msgs, msgLast>>
mcpVars == <<mcpServers, mcpRawTools, mcpWebSearch, mcpPc, mcpLoaded, toolSet>>
emitVars == <<emEndpoint, emPc, emRound, emH, emSent, emStored, emTerminal,
             emToolRounds>>
isoVars == <<chatSessions, chatMessages, readBy, listedTo>>
afterVars == <<mcpResult, saveWorks, afterPc, handed>>
cleanVars == <<clPc, enabled, tried, openConns, mcpReturn, mcpCleanup, cleanupCalled>>
sseVars == <<events, delivered, ssePc, buffer, applied, shown>>
vars == <<toolName, sqlArg, toolPc, pending, toolResult, svcFailure, dbLog,
          pc, req, tools, agent, out, hs, db,
          isInitialized, isInitializing, bm25Chunks, vectorStore,
          useVectorSearch, cpc, cres, builds,
          corpus, query, bmPc, bmHits, bmRet,
          tableInitialized, mems, memLast,
          msgs, msgLast,
          mcpServers, mcpRawTools, mcpWebSearch, mcpPc, mcpLoaded, toolSet,
          emEndpoint, emPc, emRound, emH, emSent, emStored, emTerminal,
          emToolRounds,
          chatSessions, chatMessages, readBy, listedTo,
          mcpResult, saveWorks, afterPc, handed,
          clPc, enabled, tried, openConns, mcpReturn, mcpCleanup, cleanupCalled,
          events, delivered, ssePc, buffer, applied, shown>>

\* what the actions of one component leave alone
aroundTools == <<chatVars, ragVars, bmVars, memVars, msgVars, mcpVars, emitVars, isoVars, afterVars, cleanVars, sseVars>>
aroundChat == <<toolVars, ragVars, bmVars, memVars, msgVars, mcpVars, emitVars, isoVars, afterVars, cleanVars, sseVars>>
aroundRag == <<toolVars, chatVars, bmVars, memVars, msgVars, mcpVars, emitVars, isoVars, afterVars, cleanVars, sseVars>>
aroundBm == <<toolVars, chatVars, ragVars, memVars, msgVars, mcpVars, emitVars, isoVars, afterVars, cleanVars, sseVars>>
aroundMem == <<toolVars, chatVars, ragVars, bmVars, msgVars, mcpVars, emitVars, isoVars, afterVars, cleanVars, sseVars>>
aroundMsg == <<toolVars, chatVars, ragVars, bmVars, memVars, mcpVars, emitVars, isoVars, afterVars, cleanVars, sseVars>>
aroundMcp == <<toolVars, chatVars, ragVars, bmVars, memVars, msgVars, emitVars, isoVars, afterVars, cleanVars, sseVars>>
aroundEmit == <<toolVars, chatVars, ragVars, bmVars, memVars, msgVars, mcpVars, isoVars, afterVars, cleanVars, sseVars>>
aroundIso == <<toolVars, chatVars, ragVars, bmVars, memVars, msgVars, mcpVars, emitVars, afterVars, cleanVars, sseVars>>
aroundAfter == <<toolVars, chatVars, ragVars, bmVars, memVars, msgVars, mcpVars, emitVars, isoVars, cleanVars, sseVars>>
aroundClean == <<toolVars, chatVars, ragVars, bmVars, memVars, msgVars, mcpVars, emitVars, isoVars, afterVars, sseVars>>
aroundSse == <<toolVars, chatVars, ragVars, bmVars, memVars, msgVars, mcpVars, emitVars, isoVars, afterVars, cleanVars>>

(***************************************************************************)
(* Bounds                                                                  *)
(***************************************************************************)
MaxPieces == 3
NumCallers == 3
MaxBuilds == 2
MaxChunks == 2
MaxStreamChunks == 2
MaxCalls == 2
RecursionLimit == 3
MaxDocs == 2
MaxMemories == 3
MaxMessages == 4
MaxReplyUnits == 6
MaxRounds == 2
MaxStoredMessages == 4
MaxBlocks == 2
MaxServers == 2
MaxEvents == 2
MaxNetChunk == 3

(***************************************************************************)
(* Text: a string is a sequence of one-character strings                   *)
(***************************************************************************)
UpperLetters ==
    <<"A","B","C","D","E","F","G","H","I","J","K","L","M",
      "N","O","P","Q","R","S","T","U","V","W","X","Y","Z">>

LowerLetters ==
    <<"a","b","c","d","e","f","g","h","i","j","k","l","m",
      "n","o","p","q","r","s","t","u","v","w","x","y","z">>

Digits == {"0","1","2","3","4","5","6","7","8","9"}

Range(s) == {s[i] : i \in DOMAIN s}

LowerChar(c) ==
    IF c \in Range(UpperLetters)
    THEN LowerLetters[CHOOSE i \in DOMAIN UpperLetters : UpperLetters[i] = c]
    ELSE c

ToLowerCase(s) == [i \in DOMAIN s |-> LowerChar(s[i])]

IsSpace(c) == c = " "

RECURSIVE TrimStart(_)
TrimStart(s) ==
    IF s # <<>> /\ IsSpace(Head(s)) THEN TrimStart(Tail(s)) ELSE s

RECURSIVE TrimEnd(_)
TrimEnd(s) ==
    IF s # <<>> /\ IsSpace(s[Len(s)])
    THEN TrimEnd(SubSeq(s, 1, Len(s) - 1))
    ELSE s

Trim(s) == TrimEnd(TrimStart(s))

StartsWith(s, p) == Len(s) >= Len(p) /\ SubSeq(s, 1, Len(p)) = p

EndsWith(s, p) ==
    Len(s) >= Len(p) /\ SubSeq(s, Len(s) - Len(p) + 1, Len(s)) = p

Includes(s, p) ==
    \E i \in 1..(Len(s) - Len(p) + 1) : SubSeq(s, i, i + Len(p) - 1) = p

\* \w of a JavaScript regular expression
IsWordChar(c) ==
    c \in Range(UpperLetters) \cup Range(LowerLetters) \cup Digits \cup {"_"}

\* new RegExp(`\\b${keyword}\\b`, "i").test(s), for a keyword made of \w
RegexWordTest(s, keyword) ==
    LET t == ToLowerCase(s)
        n == Len(keyword)
    IN \E i \in 1..(Len(t) - n + 1) :
          /\ SubSeq(t, i, i + n - 1) = keyword
          /\ (i = 1 \/ ~IsWordChar(t[i - 1]))
          /\ (i + n - 1 = Len(t) \/ ~IsWordChar(t[i + n]))

RECURSIVE Concat(_)
Concat(ss) == IF ss = <<>> THEN <<>> ELSE Head(ss) \o Concat(Tail(ss))

(***************************************************************************)
(* Blog database tool: getDatabaseSchema and executeReadOnlyQuery          *)
(***************************************************************************)
KwSelect == <<"s","e","l","e","c","t">>
KwWith == <<"w","i","t","h">>
KwLimit == <<"l","i","m","i","t">>

\* const dangerous = [...]
dangerous ==
    << <<"i","n","s","e","r","t">>,
       <<"u","p","d","a","t","e">>,
       <<"d","e","l","e","t","e">>,
       <<"d","r","o","p">>,
       <<"a","l","t","e","r">>,
       <<"t","r","u","n","c","a","t","e">>,
       <<"c","r","e","a","t","e">> >>

\* the text the code appends: ` LIMIT 50`
LimitSuffix == <<" ","L","I","M","I","T"," ","5","0">>

\* the row cap of the appended clause
RowLimit == 50

\* SQL texts the model may pass: concatenations of at most MaxPieces pieces
SqlPieces ==
    { <<"s","e","l","e","c","t">>,
      <<"W","i","t","h">>,
      <<"d","r","o","p">>,
      <<"x">>,
      <<" ">>,
      <<";">>,
      <<" ","l","i","m","i","t"," ","1","0","0">> }

RECURSIVE PieceSeqs(_)
PieceSeqs(n) ==
    IF n = 0 THEN {<<>>}
    ELSE LET shorter == PieceSeqs(n - 1)
         IN shorter \cup {Append(q, p) : q \in {r \in shorter : Len(r) = n - 1},
                                          p \in SqlPieces}

SqlInputs == {Concat(q) : q \in PieceSeqs(MaxPieces)}

\* what can go wrong in the service underneath a tool
Failures ==
    {"none", "missing_config", "connect_failure", "query_error",
     "http_error", "network_exception", "io_error"}

\* number of rows the queried table holds
TableSizes == {0, 60, 120}

\* the own LIMIT clause of a statement, as the database reads it:
\* 0 stands for "no LIMIT clause"
StatementLimit(stmt) ==
    LET t == ToLowerCase(stmt)
    IN IF EndsWith(t, ToLowerCase(LimitSuffix)) THEN RowLimit
       ELSE IF Includes(t, <<" ","l","i","m","i","t"," ","1","0","0">>) THEN 100
       ELSE 0

\* rows the database returns for a statement over a table of `size` rows
RowsReturned(stmt, size) ==
    LET l == StatementLimit(stmt)
    IN IF l = 0 \/ size <= l THEN size ELSE l

TextResult(tag, rows) == [kind |-> "text", tag |-> tag, rows |-> rows, sent |-> <<>>]
Thrown(tag) == [kind |-> "throw", tag |-> tag, rows |-> 0, sent |-> <<>>]

\* getPool().connect(): throws when DATABASE_URL is missing or the connect fails
PoolConnectThrows(f) == f \in {"missing_config", "connect_failure"}

getDatabaseSchema(f) ==
    IF PoolConnectThrows(f) THEN Thrown("connect")
    ELSE IF f = "query_error" THEN Thrown("query")   \* try/finally, no catch
    ELSE TextResult("schema", 0)

\* the first guard: only select / with may pass
NotReadOnlyStart(trimmed) ==
    ~StartsWith(trimmed, KwSelect) /\ ~StartsWith(trimmed, KwWith)

\* the condition of the keyword loop, as written in the code
DangerousHit(trimmed, keyword) ==
    /\ RegexWordTest(trimmed, keyword)
    /\ ~StartsWith(trimmed, KwSelect)
    /\ ~StartsWith(trimmed, KwWith)

limitedSql(sql, trimmed) ==
    IF Includes(trimmed, KwLimit) THEN sql ELSE sql \o LimitSuffix

executeReadOnlyQuery(sql, f, size) ==
    LET trimmed == ToLowerCase(Trim(sql))
        stmt == limitedSql(sql, trimmed)
        n == RowsReturned(stmt, size)
    IN IF NotReadOnlyStart(trimmed) THEN TextResult("error_not_select", 0)
       ELSE IF \E i \in DOMAIN dangerous : DangerousHit(trimmed, dangerous[i])
            THEN TextResult("error_keyword", 0)
       ELSE IF PoolConnectThrows(f) THEN Thrown("connect")
       ELSE IF f = "query_error"
            THEN [TextResult("error_sql", 0) EXCEPT !.sent = <<stmt>>]
       ELSE IF n = 0
            THEN [TextResult("empty", 0) EXCEPT !.sent = <<stmt>>]
       ELSE [TextResult("table", n) EXCEPT !.sent = <<stmt>>]

(***************************************************************************)
(* Tool registry (lib/tools.ts)                                            *)
(***************************************************************************)
webSearchTool == "web_search"

ALL_TOOLS ==
    <<"get_current_time", "calculator", "get_weather",
      "search_knowledge_base", webSearchTool, "generate_image",
      "analyze_image", "parse_file", "get_blog_db_schema", "query_blog_db">>

\* searchKnowledge as seen by its tool: initKnowledgeBase has no catch, so a
\* failure while loading the documents leaves searchKnowledge as an exception
searchKnowledgeOutcome(f) ==
    IF f = "io_error" THEN Thrown("kb_load") ELSE TextResult("knowledge", 0)

\* webSearch: the whole body is inside try/catch
webSearch(f) ==
    IF f = "http_error" THEN TextResult("search_http", 0)
    ELSE IF f = "network_exception" THEN TextResult("search_error", 0)
    ELSE TextResult("search", 0)

\* generateImage: missing key is reported as text, the fetch is inside try/catch
generateImage(f) ==
    IF f = "missing_config" THEN TextResult("image_no_key", 0)
    ELSE IF f = "http_error" THEN TextResult("image_http", 0)
    ELSE IF f = "network_exception" THEN TextResult("image_error", 0)
    ELSE TextResult("image", 0)

analyzeImage(f) ==
    IF f = "missing_config" THEN TextResult("vision_no_key", 0)
    ELSE IF f = "http_error" THEN TextResult("vision_http", 0)
    ELSE IF f = "network_exception" THEN TextResult("vision_error", 0)
    ELSE TextResult("vision", 0)

\* parseFile: the parsers run inside try/catch
parseFile(f) ==
    IF f = "io_error" THEN TextResult("file_error", 0) ELSE TextResult("file", 0)

\* the function body of each tool(...) of the registry
ToolExecute(name, sql, f, size) ==
    CASE name = "get_current_time" -> TextResult("time", 0)
      [] name = "calculator" -> TextResult("calc", 0)
      [] name = "get_weather" -> TextResult("weather", 0)
      [] name = "search_knowledge_base" -> searchKnowledgeOutcome(f)
      [] name = webSearchTool -> webSearch(f)
      [] name = "generate_image" -> generateImage(f)
      [] name = "analyze_image" -> analyzeImage(f)
      [] name = "parse_file" -> parseFile(f)
      [] name = "get_blog_db_schema" -> getDatabaseSchema(f)
      [] name = "query_blog_db" -> executeReadOnlyQuery(sql, f, size)

\* whether some failure of its service makes the tool's execute throw
CanThrow(name) ==
    \E f \in Failures : ToolExecute(name, KwSelect, f, 0).kind = "throw"

NoResult == [kind |-> "none", tag |-> "", rows |-> 0, sent |-> <<>>]

NoExternalCall == [call |-> "none", timeout |-> 0]

ToolsIdle ==
    /\ toolName = "" /\ sqlArg = <<>> /\ toolPc = "off" /\ pending = NoExternalCall
    /\ toolResult = NoResult /\ svcFailure = "none" /\ dbLog = <<>>

InitToolVars ==
    /\ toolName \in Range(ALL_TOOLS)
    /\ sqlArg \in (IF toolName = "query_blog_db" THEN SqlInputs ELSE {<<>>})
    /\ toolPc = "ready"
    /\ pending = NoExternalCall
    /\ toolResult = NoResult
    /\ svcFailure = "none"
    /\ dbLog = <<>>

\* the network and database calls a tool awaits, each with the timeout in
\* milliseconds its code arms for it (0: none)
ExternalCall(call, timeout) == [call |-> call, timeout |-> timeout]

ExternalCalls(name, sql) ==
    CASE name = webSearchTool ->
           {ExternalCall("bing_fetch", 10000), ExternalCall("page_fetch", 5000)}
      [] name = "generate_image" -> {ExternalCall("image_api_fetch", 0)}
      [] name = "analyze_image" -> {ExternalCall("vision_api_fetch", 0)}
      [] name = "get_blog_db_schema" ->
           {ExternalCall("pool_connect", 10000), ExternalCall("client_query", 0)}
      [] name = "query_blog_db" ->
           IF NotReadOnlyStart(ToLowerCase(Trim(sql))) THEN {}
           ELSE {ExternalCall("pool_connect", 10000),
                 ExternalCall("client_query", 0)}
      [] OTHER -> {}

\* the tool reaches one of its external calls and awaits it
StartExternalCall ==
    /\ toolPc = "ready"
    /\ \E c \in ExternalCalls(toolName, sqlArg) : pending' = c
    /\ toolPc' = "waiting"
    /\ UNCHANGED <<toolName, sqlArg, toolResult, svcFailure, dbLog>>
    /\ UNCHANGED aroundTools

\* the timeout armed for the awaited call fires: the call rejects
TimeoutFires ==
    /\ toolPc = "waiting"
    /\ pending.timeout > 0
    /\ LET r == ToolExecute(toolName, sqlArg,
                    IF pending.call = "pool_connect" THEN "connect_failure"
                    ELSE "network_exception", 0)
       IN /\ toolResult' = r
          /\ dbLog' = dbLog \o r.sent
    /\ svcFailure' = "timeout"
    /\ toolPc' = "done"
    /\ UNCHANGED <<toolName, sqlArg, pending>>
    /\ UNCHANGED aroundTools

\* the services answer (or fail): the tool's execute settles
ExecuteTool ==
    /\ \/ toolPc = "waiting"
       \/ toolPc = "ready" /\ ExternalCalls(toolName, sqlArg) = {}
    /\ \E f \in Failures, size \in TableSizes :
          LET r == ToolExecute(toolName, sqlArg, f, size)
          IN /\ toolResult' = r
             /\ svcFailure' = f
             /\ dbLog' = dbLog \o r.sent
    /\ toolPc' = "done"
    /\ UNCHANGED <<toolName, sqlArg, pending>>
    /\ UNCHANGED aroundTools

(***************************************************************************)
(* Knowledge base (lib/rag.ts): initKnowledgeBase and searchKnowledge      *)
(***************************************************************************)
Callers == 1..NumCallers

\* no searchKnowledge call has settled yet
NoCall ==
    [caller |-> 0, kind |-> "none", ret |-> "", avail |-> FALSE,
     sim |-> "none", top |-> "none", chunks |-> 0]

\* callers that are inside the build part of initKnowledgeBase
Builders == {c \in Callers : cpc[c] \in {"loading", "embedding"}}

RagIdle ==
    /\ isInitialized = FALSE /\ isInitializing = FALSE
    /\ bm25Chunks = 0 /\ vectorStore = "null" /\ useVectorSearch = TRUE
    /\ cpc = <<>> /\ cres = <<>> /\ builds = 0

InitRagVars ==
    /\ isInitialized = FALSE
    /\ isInitializing = FALSE
    /\ bm25Chunks = 0
    /\ vectorStore = "null"
    /\ useVectorSearch = TRUE
    /\ cpc = [c \in Callers |-> "idle"]
    /\ cres = NoCall
    /\ builds = 0

\* the builder's entry: `isInitializing = true` right after the two checks,
\* with no await in between
ForgetFlagEntry(c) ==
    /\ builds < MaxBuilds
    /\ builds' = builds + 1
    /\ cpc' = [cpc EXCEPT ![c] = "loading"]
    /\ UNCHANGED isInitializing

BuilderEntry(c) ==
    /\ builds < MaxBuilds
    /\ isInitializing' = TRUE
    /\ builds' = builds + 1
    /\ cpc' = [cpc EXCEPT ![c] = "loading"]

\* searchKnowledge is called: initKnowledgeBase runs up to its first await
CallSearch(c) ==
    /\ cpc[c] = "idle"
    /\ IF isInitialized
       THEN /\ cpc' = [cpc EXCEPT ![c] = "search"]
            /\ UNCHANGED <<isInitializing, builds>>
       ELSE IF isInitializing
       THEN /\ cpc' = [cpc EXCEPT ![c] = "waiting"]
            /\ UNCHANGED <<isInitializing, builds>>
       ELSE BuilderEntry(c)
    /\ UNCHANGED <<isInitialized, bm25Chunks, vectorStore, useVectorSearch, cres>>
    /\ UNCHANGED aroundRag

\* the 100 ms timer of a waiting caller fires and the flag is down: return
WaitOver(c) ==
    /\ cpc[c] = "waiting"
    /\ ~isInitializing
    /\ cpc' = [cpc EXCEPT ![c] = "search"]
    /\ UNCHANGED <<isInitialized, isInitializing, bm25Chunks, vectorStore,
                   useVectorSearch, cres, builds>>
    /\ UNCHANGED aroundRag

\* loadAndSplitDocuments settles: no chunk, n chunks, or an exception
LoadSettles(c) ==
    /\ cpc[c] = "loading"
    /\ \/ \* chunks.length === 0: isInitialized = true; return (finally)
          /\ isInitialized' = TRUE
          /\ isInitializing' = FALSE
          /\ cpc' = [cpc EXCEPT ![c] = "search"]
          /\ UNCHANGED <<bm25Chunks, cres>>
       \/ \* the BM25 index is built, the vector index is awaited
          /\ \E n \in 1..MaxChunks : bm25Chunks' = n
          /\ cpc' = [cpc EXCEPT ![c] = "embedding"]
          /\ UNCHANGED <<isInitialized, isInitializing, cres>>
       \/ \* an exception: finally lowers the flag, searchKnowledge rejects
          /\ isInitializing' = FALSE
          /\ cpc' = [cpc EXCEPT ![c] = "idle"]
          /\ cres' = [NoCall EXCEPT !.caller = c, !.kind = "threw"]
          /\ UNCHANGED <<isInitialized, bm25Chunks>>
    /\ UNCHANGED <<vectorStore, useVectorSearch, builds>>
    /\ UNCHANGED aroundRag

\* MemoryVectorStore.fromDocuments settles
EmbedSettles(c) ==
    /\ cpc[c] = "embedding"
    /\ \/ /\ vectorStore' = "built"
          /\ useVectorSearch' = TRUE
       \/ /\ useVectorSearch' = FALSE
          /\ UNCHANGED vectorStore
    /\ isInitialized' = TRUE
    /\ isInitializing' = FALSE
    /\ cpc' = [cpc EXCEPT ![c] = "search"]
    /\ UNCHANGED <<bm25Chunks, cres, builds>>
    /\ UNCHANGED aroundRag

\* the texts searchKnowledge, vectorSearch and bm25Search can return
KbEmptyText == "kb_empty"
NothingFoundText == "nothing_found"
VectorHitsText == "vector_hits"
Bm25HitsText == "bm25_hits"

\* what the similarity search of the vector store does for a query, and
\* whether some chunk has a BM25 score above 0 for it
SimOutcomes == {"hits", "none", "throws"}
TopOutcomes == {"hits", "none"}

\* vectorSearch: "" without a store or without results
vectorSearch(store, sim) ==
    IF store = "null" THEN ""
    ELSE IF sim = "none" THEN ""
    ELSE VectorHitsText

\* bm25Search, by the outcome of its scoring: "" without chunks or when no
\* chunk scores above 0
bm25SearchText(chunks, top) ==
    IF chunks = 0 THEN ""
    ELSE IF top = "none" THEN ""
    ELSE Bm25HitsText

Returned(text) == [kind |-> "returned", ret |-> text]

\* searchKnowledge with the vector tier's exception escaping
searchKnowledgeUncaught(chunks, useVector, store, sim, top) ==
    IF chunks = 0 THEN Returned(KbEmptyText)
    ELSE IF useVector /\ store # "null" /\ sim = "throws"
    THEN [kind |-> "threw", ret |-> ""]
    ELSE IF useVector /\ store # "null" /\ vectorSearch(store, sim) # ""
    THEN Returned(vectorSearch(store, sim))
    ELSE IF bm25SearchText(chunks, top) # ""
    THEN Returned(bm25SearchText(chunks, top))
    ELSE Returned(NothingFoundText)

\* searchKnowledge after initKnowledgeBase has returned
searchKnowledge(chunks, useVector, store, sim, top) ==
    IF chunks = 0 THEN Returned(KbEmptyText)
    ELSE LET tier1 == IF useVector /\ store # "null" /\ sim # "throws"
                      THEN vectorSearch(store, sim)
                      ELSE ""
             tier2 == bm25SearchText(chunks, top)
         IN IF tier1 # "" THEN Returned(tier1)
            ELSE IF tier2 # "" THEN Returned(tier2)
            ELSE Returned(NothingFoundText)

\* the rest of searchKnowledge, after initKnowledgeBase has returned
SearchTiers(c) ==
    /\ cpc[c] = "search"
    /\ \E sim \in SimOutcomes, top \in TopOutcomes :
          LET r == searchKnowledge(bm25Chunks, useVectorSearch, vectorStore,
                                   sim, top)
          IN cres' =
                 [caller |-> c, kind |-> r.kind, ret |-> r.ret,
                  avail |-> (useVectorSearch /\ vectorStore # "null"),
                  sim |-> sim, top |-> top, chunks |-> bm25Chunks]
    /\ cpc' = [cpc EXCEPT ![c] = "idle"]
    /\ UNCHANGED <<isInitialized, isInitializing, bm25Chunks, vectorStore,
                   useVectorSearch, builds>>
    /\ UNCHANGED aroundRag

(***************************************************************************)
(* BM25 tier (lib/rag.ts): tokenize, bm25Score, bm25Search                 *)
(* A text is a sequence of characters; a Chinese character is written as   *)
(* an atom such as "bao", and counts for one in w.length.                  *)
(***************************************************************************)
\* the characters the regular expression of tokenize replaces by a space
TokenSeparators == {" ", "nl", "cn_comma", "cn_period"}

\* the stop words that are at least two characters long, and two short ones
stopWords == { <<"yi", "ge">>, <<"mei", "you">>, <<"zi", "ji">>,
               <<"de">>, <<"le">> }

\* index of the first separator of t, 0 when there is none
FirstSeparator(t) ==
    IF \E i \in DOMAIN t : t[i] \in TokenSeparators
    THEN CHOOSE i \in DOMAIN t :
            /\ t[i] \in TokenSeparators
            /\ \A j \in 1..(i - 1) : t[j] \notin TokenSeparators
    ELSE 0

RECURSIVE SkipSeparators(_)
SkipSeparators(t) ==
    IF t # <<>> /\ t[1] \in TokenSeparators THEN SkipSeparators(Tail(t)) ELSE t

\* text.replace(separators, " ").split(/\s+/)
RECURSIVE SplitWords(_)
SplitWords(t) ==
    LET i == FirstSeparator(t)
    IN IF i = 0 THEN <<t>>
       ELSE <<SubSeq(t, 1, i - 1)>>
            \o SplitWords(SkipSeparators(SubSeq(t, i + 1, Len(t))))

tokenize(text) ==
    LET kept == SelectSeq(SplitWords(text),
                          LAMBDA w : Len(w) >= 2 /\ w \notin stopWords)
    IN [i \in DOMAIN kept |-> ToLowerCase(kept[i])]

\* termFreq.get(token) || 0
TermFreq(token, docTokens) ==
    Cardinality({i \in DOMAIN docTokens : docTokens[i] = token})

\* docFrequency.get(token) || 0: the number of chunks that hold the token
DocFrequency(token, chunkTokens) ==
    Cardinality({d \in DOMAIN chunkTokens : TermFreq(token, chunkTokens[d]) > 0})

\* idf = Math.log((totalDocs - df + 0.5) / (df + 0.5) + 1) is above 0
\* exactly when the fraction is, that is when 2 * (totalDocs - df) + 1 > 0
IdfPositive(totalDocs, df) == 2 * (totalDocs - df) + 1 > 0

\* bm25Score, up to its sign: the number of query tokens that add a term
\* above 0 to the score (tf > 0 makes tfNorm > 0; the other terms are skipped)
bm25Score(queryTokens, docTokens, totalDocs, chunkTokens) ==
    Cardinality({q \in DOMAIN queryTokens :
        /\ TermFreq(queryTokens[q], docTokens) > 0
        /\ IdfPositive(totalDocs, DocFrequency(queryTokens[q], chunkTokens))})

topK == 3

\* bm25Search: the chunks with a score above 0 among the topK best
\* (with at most topK chunks the slice keeps every chunk)
bm25Search(queryText, chunkTexts) ==
    LET chunkTokens == [d \in DOMAIN chunkTexts |-> tokenize(chunkTexts[d])]
        queryTokens == tokenize(queryText)
    IN {d \in DOMAIN chunkTexts :
           bm25Score(queryTokens, chunkTokens[d], Len(chunkTexts), chunkTokens) > 0}

\* chunk texts and queries
ChunkTexts ==
    { <<"bao", "xiao", " ", "bao", "xiao">>,
      <<"bao", "xiao", "cn_comma", "bao", "xiao", "cn_period">>,
      <<"bao", "xiao", "liu", "cheng">>,
      <<"liu", "cheng", " ", "A", "B">>,
      <<"yi", "ge", " ", "de">> }

QueryTexts ==
    { <<"bao", "xiao", "liu", "cheng">>,
      <<"bao", "xiao">>,
      <<"bao", "xiao", " ", "liu", "cheng">>,
      <<"a", "b">>,
      <<"yi", "ge">> }

Corpora == UNION { [1..n -> ChunkTexts] : n \in 1..MaxDocs }

BmIdle ==
    /\ corpus = <<>> /\ query = <<>> /\ bmPc = "off"
    /\ bmHits = {} /\ bmRet = ""

InitBmVars ==
    /\ corpus \in Corpora
    /\ query \in QueryTexts
    /\ bmPc = "ready"
    /\ bmHits = {}
    /\ bmRet = ""

\* searchKnowledge(query) over the corpus, the semantic tier unavailable
Bm25Query ==
    /\ bmPc = "ready"
    /\ bmHits' = bm25Search(query, corpus)
    /\ bmRet' = searchKnowledge(Len(corpus), FALSE, "null", "none",
                    IF bm25Search(query, corpus) # {} THEN "hits" ELSE "none").ret
    /\ bmPc' = "done"
    /\ UNCHANGED <<corpus, query>>
    /\ UNCHANGED aroundBm

(***************************************************************************)
(* Long-term memory (lib/long-memory.ts): saveMemory and searchMemories    *)
(***************************************************************************)
\* keywords and content of the records the model stores
PetKeywords == <<"mao", ",", "chong", "wu">>
MemoryTexts ==
    { [keywords |-> PetKeywords, content |-> <<"m", "i">>],
      [keywords |-> <<"chong", "wu">>, content |-> <<"g", "o", "u">>],
      [keywords |-> <<"tian", "qi">>, content |-> <<"chong", "wu", "dian">>] }

Importances == {"high", "normal"}

MemoryQueries ==
    { <<"chong", "wu">>,
      <<"tui", "jian", " ", "chong", "wu">>,
      <<"x">> }

\* the limit argument of searchMemories (5 where the endpoints call it)
MemoryLimits == {2, 5}

\* the tokens of a query: split on the separators, words of 2 and more
QueryTokens(q) == SelectSeq(SplitWords(q), LAMBDA w : Len(w) >= 2)

\* the condition with the content column only
ContentOnlyMatch(row, tokens) ==
    \E i \in DOMAIN tokens : Includes(row.content, tokens[i])

\* (content LIKE %token% OR keywords LIKE %token%), OR-ed over the tokens
RowMatches(row, tokens) ==
    \E i \in DOMAIN tokens :
       \/ Includes(row.content, tokens[i])
       \/ Includes(row.keywords, tokens[i])

\* CASE importance WHEN 'high' THEN 0 WHEN 'normal' THEN 1 ELSE 2 END
ImportanceRank(importance) ==
    IF importance = "high" THEN 0 ELSE IF importance = "normal" THEN 1 ELSE 2

\* row a is strictly before row b in ORDER BY importance rank, created_at DESC
SortsBefore(a, b) ==
    \/ ImportanceRank(a.importance) < ImportanceRank(b.importance)
    \/ /\ ImportanceRank(a.importance) = ImportanceRank(b.importance)
       /\ a.created_at > b.created_at

\* the ids of the rows that match the query
MatchingIds(rows, q) ==
    {i \in DOMAIN rows : RowMatches(rows[i], QueryTokens(q))}

\* the id sets the SELECT ... ORDER BY ... LIMIT may return: the first
\* `limit` matching rows in sort order, rows that tie in any order
SelectResults(rows, q, limit) ==
    LET matching == MatchingIds(rows, q)
        n == IF Cardinality(matching) < limit THEN Cardinality(matching)
             ELSE limit
    IN {S \in SUBSET matching :
           /\ Cardinality(S) = n
           /\ \A a \in S, b \in matching \ S : ~SortsBefore(rows[b], rows[a])}

\* the last created_at of the table, 0 for an empty table
LastCreatedAt(rows) == IF rows = <<>> THEN 0 ELSE rows[Len(rows)].created_at

MemIdle ==
    /\ tableInitialized = FALSE /\ mems = <<>>
    /\ memLast = [op |-> "off", ids |-> {}, query |-> <<>>, limit |-> 0]

NoMemCall == [op |-> "none", ids |-> {}, query |-> <<>>, limit |-> 0]

InitMemVars ==
    /\ tableInitialized = FALSE
    /\ mems = <<>>
    /\ memLast = NoMemCall

\* saveMemory: ensureMemoryTable, then one INSERT; NOW() is the time of the
\* insert, which may equal the time of the insert before it
SaveMemory ==
    /\ Len(mems) < MaxMemories
    /\ \E t \in MemoryTexts, imp \in Importances, dt \in {0, 1} :
          mems' = Append(mems,
                     [keywords |-> t.keywords, content |-> t.content,
                      importance |-> imp,
                      created_at |-> LastCreatedAt(mems) + dt])
    /\ tableInitialized' = TRUE
    /\ memLast' = [NoMemCall EXCEPT !.op = "saved"]
    /\ UNCHANGED aroundMem

\* a query of saveMemory or searchMemories is rejected by the database: the
\* call throws and leaves the table as it is
MemoryCallFails ==
    /\ memLast.op # "failed"
    /\ memLast' = [NoMemCall EXCEPT !.op = "failed"]
    /\ UNCHANGED <<tableInitialized, mems>>
    /\ UNCHANGED aroundMem

\* searchMemories(query, limit)
SearchMemories ==
    /\ \E q \in MemoryQueries, limit \in MemoryLimits :
          IF QueryTokens(q) = <<>>
          THEN memLast' = [op |-> "searched", ids |-> {}, query |-> q,
                           limit |-> limit]
          ELSE \E S \in SelectResults(mems, q, limit) :
                  memLast' = [op |-> "searched", ids |-> S, query |-> q,
                              limit |-> limit]
    /\ tableInitialized' = TRUE
    /\ UNCHANGED mems
    /\ UNCHANGED aroundMem

(***************************************************************************)
(* Message store: addMessage and getRecentMessages (SQLite and PostgreSQL  *)
(* versions run the same statements)                                       *)
(***************************************************************************)
SessionIds == {"s1", "s2"}

\* the limit argument of getRecentMessages (20 where the endpoint calls it)
RecentLimits == {2, 20}

Min(a, b) == IF a < b THEN a ELSE b

\* the ids of the rows of a session
SessionRows(rows, sessionId) == {i \in DOMAIN rows : rows[i].session_id = sessionId}

\* the sequences that list every element of the set S once
Orderings(S) ==
    {f \in [1..Cardinality(S) -> S] :
        \A i, j \in 1..Cardinality(S) : i # j => f[i] # f[j]}

\* inner SELECT ... ORDER BY created_at DESC LIMIT n: the id sets it may keep
\* (rows of equal created_at are in no defined order)
NewestRows(rows, sessionId, limit) ==
    LET all == SessionRows(rows, sessionId)
    IN {S \in SUBSET all :
           /\ Cardinality(S) = Min(limit, Cardinality(all))
           /\ \A a \in S, b \in all \ S : rows[b].created_at <= rows[a].created_at}

\* outer ORDER BY created_at ASC: the orders it may give to the kept rows
AscendingOrders(rows, S) ==
    {f \in Orderings(S) :
        \A i, j \in DOMAIN f :
           i < j => rows[f[i]].created_at <= rows[f[j]].created_at}

\* every result getRecentMessages(sessionId, limit) may return
getRecentMessages(rows, sessionId, limit) ==
    UNION {AscendingOrders(rows, S) : S \in NewestRows(rows, sessionId, limit)}

\* inputMessages: the history in the order returned, then the new message
inputMessages(history) ==
    [i \in 1..(Len(history) + 1) |->
        IF i <= Len(history) THEN history[i] ELSE 0]

MsgIdle == msgs = <<>> /\ msgLast = [op |-> "off"]

NoRecentCall ==
    [op |-> "none", session_id |-> "", limit |-> 0, rows |-> <<>>,
     input |-> <<>>]

InitMsgVars == msgs = <<>> /\ msgLast = NoRecentCall

\* addMessage: one INSERT; created_at is the time of the insert, which may
\* equal the time of the insert before it (CURRENT_TIMESTAMP counts seconds)
AddMessage ==
    /\ Len(msgs) < MaxMessages
    /\ \E sid \in SessionIds, role \in {"user", "assistant"}, dt \in {0, 1} :
          msgs' = Append(msgs,
                     [session_id |-> sid, role |-> role,
                      created_at |-> (IF msgs = <<>> THEN 0
                                      ELSE msgs[Len(msgs)].created_at) + dt])
    /\ msgLast' = NoRecentCall
    /\ UNCHANGED aroundMsg

\* the endpoint reads the history of a session and builds inputMessages
GetRecentMessages ==
    /\ \E sid \in SessionIds, limit \in RecentLimits :
          \E r \in getRecentMessages(msgs, sid, limit) :
             msgLast' = [op |-> "read", session_id |-> sid, limit |-> limit,
                         rows |-> r, input |-> inputMessages(r)]
    /\ UNCHANGED msgs
    /\ UNCHANGED aroundMsg

(***************************************************************************)
(* Sessions and messages per user (PostgreSQL store, sessions route and    *)
(* session chat endpoint)                                                  *)
(***************************************************************************)
\* the ids getCurrentUserId can return
Users == {"u1", "u2"}

NoSession == [user_id |-> "", state |-> "none"]

\* SELECT * FROM chat_messages WHERE session_id = $1
MessagesOf(sessionId) == {m \in chatMessages : m.session_id = sessionId}

\* SELECT * FROM chat_sessions WHERE id = $1 AND user_id = $2
getSession(id, userId) ==
    chatSessions[id].state = "live" /\ chatSessions[id].user_id = userId

\* SELECT * FROM chat_sessions WHERE user_id = $1
getAllSessions(userId) ==
    {id \in SessionIds : chatSessions[id].state = "live"
                         /\ chatSessions[id].user_id = userId}

\* the ids of the rows inserted so far; a deleted row's id is not reused
UsedMessageIds == 1..MaxStoredMessages

IsoIdle ==
    /\ chatSessions = [id \in SessionIds |-> NoSession]
    /\ chatMessages = {}
    /\ readBy = [u \in Users |-> {}]
    /\ listedTo = [u \in Users |-> {"off"}]

InitIsoVars ==
    /\ chatSessions = [id \in SessionIds |-> NoSession]
    /\ chatMessages = {}
    /\ readBy = [u \in Users |-> {}]
    /\ listedTo = [u \in Users |-> {}]

\* POST /api/sessions: createSession(persona, userId) with a fresh id
CreateSession(userId) ==
    /\ \E id \in SessionIds :
          /\ chatSessions[id].state = "none"
          /\ chatSessions' = [chatSessions EXCEPT
                 ![id] = [user_id |-> userId, state |-> "live"]]
    /\ UNCHANGED <<chatMessages, readBy, listedTo>>
    /\ UNCHANGED aroundIso

\* GET /api/sessions: the sessions of the requester
ListSessions(userId) ==
    /\ listedTo' = [listedTo EXCEPT ![userId] = @ \cup getAllSessions(userId)]
    /\ UNCHANGED <<chatSessions, chatMessages, readBy>>
    /\ UNCHANGED aroundIso

\* GET /api/sessions?id=...: getMessages(id), whatever session id names
GetSessionMessages(userId, id) ==
    /\ readBy' = [readBy EXCEPT ![userId] = @ \cup MessagesOf(id)]
    /\ UNCHANGED <<chatSessions, chatMessages, listedTo>>
    /\ UNCHANGED aroundIso

\* DELETE /api/sessions?id=...: DELETE ... WHERE id = $1 AND user_id = $2,
\* the messages go with the session (ON DELETE CASCADE)
DeleteSession(userId, id) ==
    /\ getSession(id, userId)
    /\ chatSessions' = [chatSessions EXCEPT ![id].state = "deleted"]
    /\ chatMessages' = chatMessages \ MessagesOf(id)
    /\ UNCHANGED <<readBy, listedTo>>
    /\ UNCHANGED aroundIso

\* POST of the session chat endpoint: 404 unless getSession(sessionId,
\* userId) finds the session; the history is read and handed to the model,
\* the user message and the reply are added
PostChat(userId, sessionId) ==
    /\ getSession(sessionId, userId)
    /\ \E id \in UsedMessageIds :
          /\ id + 1 \in UsedMessageIds
          /\ \A m \in chatMessages : m.id < id
          /\ \A u \in Users : \A m \in readBy[u] : m.id < id
          /\ chatMessages' = chatMessages \cup
                { [id |-> id, session_id |-> sessionId, by |-> userId],
                  [id |-> id + 1, session_id |-> sessionId, by |-> userId] }
    /\ readBy' = [readBy EXCEPT ![userId] = @ \cup MessagesOf(sessionId)]
    /\ UNCHANGED <<chatSessions, listedTo>>
    /\ UNCHANGED aroundIso

(***************************************************************************)
(* Tool selection of the two endpoints, and createAgent                    *)
(***************************************************************************)
\* an optional list: JavaScript's undefined, or an array
Undefined == [defined |-> FALSE, list |-> <<>>]
Some(l) == [defined |-> TRUE, list |-> l]

\* l.filter((t) => t !== x)
FilterOut(l, x) == SelectSeq(l, LAMBDA t : t # x)

\* createAgent: createReactAgent({ tools: tools || ALL_TOOLS })
\* (an empty array is truthy in JavaScript, undefined is not)
createAgent(toolsArg) == IF toolsArg.defined THEN toolsArg.list ELSE ALL_TOOLS

\* session endpoint: ALL_TOOLS, without webSearchTool unless enabled, then
\* the MCP tools when there are some
SessionTools(webSearchEnabled, mcpTools) ==
    LET base == IF webSearchEnabled THEN ALL_TOOLS
                ELSE FilterOut(ALL_TOOLS, webSearchTool)
    IN Some(IF Len(mcpTools) > 0 THEN base \o mcpTools ELSE base)

\* TOOL_NAME_MAP[name], with "" for a name that is not in the map
TOOL_NAME_MAP(name) == IF name \in Range(ALL_TOOLS) THEN name ELSE ""

\* v1 endpoint: the argument handed to createAgent
V1Tools(toolNames, webSearchEnabled) ==
    LET toolsExplicitlyEmpty == toolNames.defined /\ Len(toolNames.list) = 0
        byName == IF toolNames.defined /\ Len(toolNames.list) > 0
                  THEN FilterOut([i \in DOMAIN toolNames.list |->
                                      TOOL_NAME_MAP(toolNames.list[i])], "")
                  ELSE IF toolsExplicitlyEmpty THEN <<>> ELSE ALL_TOOLS
        selectedTools == IF webSearchEnabled THEN byName
                         ELSE FilterOut(byName, webSearchTool)
    IN IF toolsExplicitlyEmpty THEN Some(<<>>)
       ELSE IF Len(selectedTools) > 0 THEN Some(selectedTools)
       ELSE Undefined

\* request options the model explores
ToolNameChoices ==
    { Undefined, Some(<<>>), Some(<<webSearchTool>>),
      Some(<<"get_blog_db_schema", webSearchTool>>), Some(<<"no_such_tool">>) }

McpToolChoices == { <<>>, <<"srv__search">> }

Requests ==
    [endpoint : {"session"}, webSearchEnabled : BOOLEAN,
     toolNames : {Undefined}, mcpTools : McpToolChoices]
    \cup
    [endpoint : {"v1"}, webSearchEnabled : BOOLEAN,
     toolNames : ToolNameChoices, mcpTools : {<<>>}]

BoundTools(r) ==
    createAgent(IF r.endpoint = "session"
                THEN SessionTools(r.webSearchEnabled, r.mcpTools)
                ELSE V1Tools(r.toolNames, r.webSearchEnabled))

(***************************************************************************)
(* MCP tools: getMcpTools and the merge with the built-in tools            *)
(* A tool or server name is a sequence of characters.                      *)
(***************************************************************************)
\* the characters of the names of the built-in tools
NameChars(name) ==
    CASE name = "get_current_time" ->
           <<"g", "e", "t", "_", "c", "u", "r", "r", "e", "n", "t", "_", "t", "i", "m", "e">>
      [] name = "calculator" ->
           <<"c", "a", "l", "c", "u", "l", "a", "t", "o", "r">>
      [] name = "get_weather" ->
           <<"g", "e", "t", "_", "w", "e", "a", "t", "h", "e", "r">>
      [] name = "search_knowledge_base" ->
           <<"s", "e", "a", "r", "c", "h", "_", "k", "n", "o", "w", "l", "e", "d", "g", "e", "_", "b", "a", "s", "e">>
      [] name = "web_search" ->
           <<"w", "e", "b", "_", "s", "e", "a", "r", "c", "h">>
      [] name = "generate_image" ->
           <<"g", "e", "n", "e", "r", "a", "t", "e", "_", "i", "m", "a", "g", "e">>
      [] name = "analyze_image" ->
           <<"a", "n", "a", "l", "y", "z", "e", "_", "i", "m", "a", "g", "e">>
      [] name = "parse_file" ->
           <<"p", "a", "r", "s", "e", "_", "f", "i", "l", "e">>
      [] name = "get_blog_db_schema" ->
           <<"g", "e", "t", "_", "b", "l", "o", "g", "_", "d", "b", "_", "s", "c", "h", "e", "m", "a">>
      [] name = "query_blog_db" ->
           <<"q", "u", "e", "r", "y", "_", "b", "l", "o", "g", "_", "d", "b">>

\* [a-zA-Z0-9_-]
IsNameChar(c) ==
    c \in Range(UpperLetters) \cup Range(LowerLetters) \cup Digits \cup {"_", "-"}

\* name.replace(/[^a-zA-Z0-9_-]/g, "_")
SanitizeName(name) ==
    [i \in DOMAIN name |-> IF IsNameChar(name[i]) THEN name[i] ELSE "_"]

\* prefixToolNameWithServerName: serverName__toolName
PrefixedName(server, tool) == server \o <<"_", "_">> \o tool

\* the elements of a finite set, one after the other
RECURSIVE SetToSeq(_)
SetToSeq(S) ==
    IF S = {} THEN <<>>
    ELSE LET x == CHOOSE y \in S : TRUE IN <<x>> \o SetToSeq(S \ {x})

\* server names and raw tool names of the explored configurations
McpServerNames == { <<"f", "s">>, <<"d", ".", "b">>, <<"d", " ", "b">> }
McpRawToolNames == { <<"g", "e", "t">>, <<"a", ".", "b">>, <<"a", "/", "b">> }

McpIdle ==
    /\ mcpServers = {} /\ mcpRawTools = {} /\ mcpWebSearch = FALSE
    /\ mcpPc = "off" /\ mcpLoaded = <<>> /\ toolSet = <<>>

InitMcpVars ==
    /\ mcpServers \in SUBSET McpServerNames
    /\ mcpRawTools \in SUBSET McpRawToolNames
    /\ mcpWebSearch \in BOOLEAN
    /\ mcpPc = "ready"
    /\ mcpLoaded = <<>>
    /\ toolSet = <<>>

\* the tools of the request: the built-in ones (filtered), then the tools
\* getMcpTools returns: every raw tool of every server, prefixed with the
\* server name and sanitized; nothing when loading fails
GetMcpTools ==
    /\ mcpPc = "ready"
    /\ \E loaded \in BOOLEAN :
          LET raw == IF loaded
                     THEN SetToSeq(mcpServers \X mcpRawTools)
                     ELSE <<>>
              mcpNames == [i \in DOMAIN raw |->
                              SanitizeName(PrefixedName(raw[i][1], raw[i][2]))]
              builtin == SessionTools(mcpWebSearch, <<>>).list
          IN /\ mcpLoaded' = raw
             /\ toolSet' = [i \in DOMAIN builtin |-> NameChars(builtin[i])]
                           \o mcpNames
    /\ mcpPc' = "done"
    /\ UNCHANGED <<mcpServers, mcpRawTools, mcpWebSearch>>
    /\ UNCHANGED aroundMcp

(***************************************************************************)
(* afterToolCall of the MCP client: the result of an MCP tool is turned    *)
(* into text. A text is a sequence of runs [kind, n]: n characters of      *)
(* ordinary text ("text"), of a base64 payload ("b64") or of the URL of a  *)
(* saved file ("url").                                                     *)
(***************************************************************************)
Run(kind, n) == [kind |-> kind, n |-> n]

\* t.slice(0, limit)
RECURSIVE SliceText(_, _)
SliceText(t, limit) ==
    IF t = <<>> \/ limit <= 0 THEN <<>>
    ELSE IF Head(t).n <= limit
         THEN <<Head(t)>> \o SliceText(Tail(t), limit - Head(t).n)
         ELSE <<Run(Head(t).kind, limit)>>

\* parts.join("\n")
RECURSIVE JoinLines(_)
JoinLines(parts) ==
    IF parts = <<>> THEN <<>>
    ELSE IF Len(parts) = 1 THEN Head(parts)
    ELSE Head(parts) \o <<Run("text", 1)>> \o JoinLines(Tail(parts))

\* slice bounds of afterToolCall
BlockJsonLimit == 500
ObjectJsonLimit == 2000

\* "![截图](" url ")"
MarkdownImage(url) == <<Run("text", 6)>> \o url \o <<Run("text", 1)>>

\* the URL saveBase64Image returns
SavedUrl == <<Run("url", 30)>>

\* "[图片保存失败]", "[图片处理失败]", "[工具无文本输出]"
SaveFailedText == <<Run("text", 8)>>
ProcessFailedText == <<Run("text", 8)>>
NoTextOutput == <<Run("text", 9)>>

\* JSON.stringify of an object that has a type and a data field
JsonOf(block) ==
    <<Run("text", 24)>>
    \o (IF block.data > 0 THEN <<Run("b64", block.data)>> ELSE <<>>)
    \o <<Run("text", 2)>>

Block(type, form, data) == [type |-> type, form |-> form, data |-> data]

\* the content blocks of the explored results; data is the length of the
\* base64 payload the block carries
PayloadLens == {40, 4000}

Blocks ==
    { Block("string", "", 0), Block("text", "", 0), Block("text", "some", 0),
      Block("resource", "", 0), Block("null", "", 0),
      Block("image", "no_data", 0), Block("image_url", "http", 0) }
    \cup { Block("image", f, n) : f \in {"source_data", "data"}, n \in PayloadLens }
    \cup { Block("image_url", f, n) :
              f \in {"data_url", "data_url_with_parameter"}, n \in PayloadLens }
    \cup { Block("audio", "data", n) : n \in PayloadLens }

\* one step of result.map(...)
BlockText(b, saves) ==
    CASE b.type = "string" -> <<Run("text", 12)>>
      [] b.type = "text" -> IF b.form = "" THEN <<>> ELSE <<Run("text", 12)>>
      [] b.type = "image" ->
           IF b.data > 0 /\ saves THEN MarkdownImage(SavedUrl)
           ELSE SaveFailedText
      [] b.type = "image_url" ->
           IF b.form = "data_url"
           THEN (IF saves THEN MarkdownImage(SavedUrl) ELSE ProcessFailedText)
           ELSE IF b.form = "data_url_with_parameter"
           THEN MarkdownImage(<<Run("text", 30), Run("b64", b.data)>>)
           ELSE MarkdownImage(<<Run("text", 30)>>)
      [] b.type = "resource" -> <<Run("text", 10)>>
      [] b.type = "null" -> <<Run("text", 4)>>
      [] OTHER -> SliceText(JsonOf(b), BlockJsonLimit)

\* the results of the explored calls: a string, an array of content
\* blocks, a plain object (with or without a base64 field), a number
Results ==
    { [shape |-> "string", blocks |-> <<>>, data |-> 0],
      [shape |-> "other", blocks |-> <<>>, data |-> 0] }
    \cup { [shape |-> "object", blocks |-> <<>>, data |-> n] :
              n \in {0} \cup PayloadLens }
    \cup { [shape |-> "array", blocks |-> bs, data |-> 0] :
              bs \in UNION { [1..n -> Blocks] : n \in 0..MaxBlocks } }

\* afterToolCall(res).result
afterToolCall(result, saves) ==
    CASE result.shape = "string" -> <<Run("text", 12)>>
      [] result.shape = "array" ->
           LET parts == SelectSeq([i \in DOMAIN result.blocks |->
                                      BlockText(result.blocks[i], saves)],
                                  LAMBDA t : t # <<>>)
               joined == JoinLines(parts)
           IN IF joined = <<>> THEN NoTextOutput ELSE joined
      [] result.shape = "object" -> SliceText(JsonOf(result), ObjectJsonLimit)
      [] OTHER -> <<Run("text", 3)>>

AfterIdle ==
    /\ mcpResult = [shape |-> "none", blocks |-> <<>>, data |-> 0]
    /\ saveWorks = FALSE /\ afterPc = "off" /\ handed = <<>>

InitAfterVars ==
    /\ mcpResult \in Results
    /\ saveWorks \in BOOLEAN
    /\ afterPc = "ready"
    /\ handed = <<>>

\* an MCP tool has returned: afterToolCall produces what the model gets
AfterToolCall ==
    /\ afterPc = "ready"
    /\ handed' = afterToolCall(mcpResult, saveWorks)
    /\ afterPc' = "done"
    /\ UNCHANGED <<mcpResult, saveWorks>>
    /\ UNCHANGED aroundAfter

(***************************************************************************)
(* MCP connections of one request of the session chat endpoint: opened by  *)
(* getMcpTools, closed by the cleanup the route keeps in mcpCleanup        *)
(***************************************************************************)
ServerIds == 1..MaxServers

NotLoaded == [tools |-> 0, cleanup |-> "null"]

CleanIdle ==
    /\ clPc = "off" /\ enabled = {} /\ tried = {} /\ openConns = {}
    /\ mcpReturn = NotLoaded /\ mcpCleanup = "null" /\ cleanupCalled = FALSE

InitCleanVars ==
    /\ clPc = "get" /\ enabled \in SUBSET ServerIds /\ tried = {}
    /\ openConns = {} /\ mcpReturn = NotLoaded /\ mcpCleanup = "null"
    /\ cleanupCalled = FALSE

\* getMcpTools with no enabled server (or no usable config): no client
NoServers ==
    /\ clPc = "get" /\ enabled = {}
    /\ mcpReturn' = [tools |-> 0, cleanup |-> "noop"]
    /\ clPc' = "merge"
    /\ UNCHANGED <<enabled, tried, openConns, mcpCleanup, cleanupCalled>>
    /\ UNCHANGED aroundClean

\* client.getTools() deals with server s: the connection is opened and the
\* server exposes n tools, or connecting fails (onConnectionError: "ignore")
ConnectServer(s) ==
    /\ clPc = "get" /\ s \in enabled \ tried
    /\ \E connects \in BOOLEAN, n \in 0..1 :
          /\ openConns' = IF connects THEN openConns \cup {s} ELSE openConns
          /\ mcpReturn' = [mcpReturn EXCEPT !.tools = IF connects THEN @ + n ELSE @]
    /\ tried' = tried \cup {s}
    /\ UNCHANGED <<clPc, enabled, mcpCleanup, cleanupCalled>>
    /\ UNCHANGED aroundClean

\* getMcpTools returns the tools and the cleanup that closes the client
ToolsLoaded ==
    /\ clPc = "get" /\ enabled # {} /\ tried = enabled
    /\ mcpReturn' = [mcpReturn EXCEPT !.cleanup = "close"]
    /\ clPc' = "merge"
    /\ UNCHANGED <<enabled, tried, openConns, mcpCleanup, cleanupCalled>>
    /\ UNCHANGED aroundClean

\* something throws inside the try of getMcpTools after the client was
\* created: the catch returns no tools and a cleanup that does nothing
LoadFails ==
    /\ clPc = "get" /\ enabled # {}
    /\ mcpReturn' = [tools |-> 0, cleanup |-> "noop"]
    /\ clPc' = "merge"
    /\ UNCHANGED <<enabled, tried, openConns, mcpCleanup, cleanupCalled>>
    /\ UNCHANGED aroundClean

\* the route: if (mcp.tools.length > 0) { ...; mcpCleanup = mcp.cleanup }
MergeTools ==
    /\ clPc = "merge"
    /\ mcpCleanup' = IF mcpReturn.tools > 0 THEN mcpReturn.cleanup ELSE mcpCleanup
    /\ clPc' = "create"
    /\ UNCHANGED <<enabled, tried, openConns, mcpReturn, cleanupCalled>>
    /\ UNCHANGED aroundClean

\* createAgent and the rest up to `new ReadableStream` succeed
StreamStarts ==
    /\ clPc = "create"
    /\ clPc' = "stream"
    /\ UNCHANGED <<enabled, tried, openConns, mcpReturn, mcpCleanup, cleanupCalled>>
    /\ UNCHANGED aroundClean

\* something throws between the merge and the stream: the outer catch
\* answers 500
SetupFails ==
    /\ clPc = "create"
    /\ clPc' = "over"
    /\ UNCHANGED <<enabled, tried, openConns, mcpReturn, mcpCleanup, cleanupCalled>>
    /\ UNCHANGED aroundClean

\* the stream ends, with `done` or in the catch block; finally:
\* if (mcpCleanup) mcpCleanup(), then controller.close()
StreamEnds ==
    /\ clPc = "stream"
    /\ cleanupCalled' = (mcpCleanup # "null")
    /\ clPc' = "over"
    /\ UNCHANGED <<enabled, tried, openConns, mcpReturn, mcpCleanup>>
    /\ UNCHANGED aroundClean

\* the cleanup that was called runs: await client.close()
ClientCloses ==
    /\ cleanupCalled /\ mcpCleanup = "close" /\ openConns # {}
    /\ openConns' = {}
    /\ UNCHANGED <<clPc, enabled, tried, mcpReturn, mcpCleanup, cleanupCalled>>
    /\ UNCHANGED aroundClean

(***************************************************************************)
(* The browser reading the event stream (sendMessage of page.tsx).         *)
(* The stream is a sequence of characters [kind, ev]: the `data: ` prefix  *)
(* of an event, the two halves of its JSON text, and line feeds.           *)
(***************************************************************************)
Ch(kind, ev) == [kind |-> kind, ev |-> ev]
LineFeed == Ch("nl", 0)

\* sendSSE: `data: ${JSON.stringify(data)}\n\n` for the i-th event
Frame(i) == <<Ch("data", i), Ch("json1", i), Ch("json2", i), LineFeed, LineFeed>>

RECURSIVE Wire(_)
Wire(n) == IF n = 0 THEN <<>> ELSE Wire(n - 1) \o Frame(n)

\* buffer.split("\n\n"): the parts, the last one being what follows the
\* last separator
RECURSIVE SplitEvents(_)
SplitEvents(buf) ==
    IF \E i \in 1..(Len(buf) - 1) : buf[i] = LineFeed /\ buf[i + 1] = LineFeed
    THEN LET i == CHOOSE k \in 1..(Len(buf) - 1) :
                     /\ buf[k] = LineFeed /\ buf[k + 1] = LineFeed
                     /\ \A j \in 1..(k - 1) :
                           ~(buf[j] = LineFeed /\ buf[j + 1] = LineFeed)
         IN <<SubSeq(buf, 1, i - 1)>> \o SplitEvents(SubSeq(buf, i + 2, Len(buf)))
    ELSE <<buf>>

\* part.trim()
RECURSIVE TrimFeeds(_)
TrimFeeds(part) ==
    IF part = <<>> THEN <<>>
    ELSE IF Head(part) = LineFeed THEN TrimFeeds(Tail(part))
    ELSE IF part[Len(part)] = LineFeed
         THEN TrimFeeds(SubSeq(part, 1, Len(part) - 1))
    ELSE part

\* line.startsWith("data: ") and JSON.parse(line.slice(6)) succeed: the
\* position of the event, 0 when the part is skipped
ParsedEvent(part) ==
    LET line == TrimFeeds(part)
    IN IF /\ Len(line) = 3
          /\ line[1].kind = "data" /\ line[2].kind = "json1"
          /\ line[3].kind = "json2" /\ line[2].ev = line[3].ev
       THEN line[2].ev ELSE 0

\* the positions of the events of the parts, skipped parts left out
RECURSIVE ParsedEvents(_)
ParsedEvents(parts) ==
    IF parts = <<>> THEN <<>>
    ELSE (IF ParsedEvent(Head(parts)) = 0 THEN <<>>
          ELSE <<ParsedEvent(Head(parts))>>)
         \o ParsedEvents(Tail(parts))

EmptyMessage == [content |-> <<>>, thinking |-> <<>>, toolCalls |-> <<>>]

\* the switch on data.type inside setMessages
ApplyEvent(msg, types, i) ==
    CASE types[i] = "thinking" -> [msg EXCEPT !.thinking = Append(@, i)]
      [] types[i] = "tool_start" -> [msg EXCEPT !.toolCalls = Append(@, i)]
      [] types[i] = "content" -> [msg EXCEPT !.content = Append(@, i)]
      [] OTHER -> msg

RECURSIVE ApplyAll(_, _, _)
ApplyAll(msg, types, is) ==
    IF is = <<>> THEN msg
    ELSE ApplyAll(ApplyEvent(msg, types, Head(is)), types, Tail(is))

EventTypes == {"thinking", "tool_start", "content", "done"}

SseIdle ==
    /\ events = <<>> /\ delivered = 0 /\ ssePc = "off" /\ buffer = <<>>
    /\ applied = <<>> /\ shown = [present |-> FALSE, msg |-> EmptyMessage]

InitSseVars ==
    /\ events \in UNION { [1..n -> EventTypes] : n \in 1..MaxEvents }
    /\ delivered = 0 /\ ssePc = "reading" /\ buffer = <<>>
    /\ applied = <<>> /\ shown = [present |-> TRUE, msg |-> EmptyMessage]

\* reader.read() returns the next n characters: they are appended to the
\* buffer, the complete parts are parsed and applied, the rest is kept
ReadChunk ==
    /\ ssePc = "reading"
    /\ \E n \in 1..MaxNetChunk :
          /\ delivered + n <= Len(Wire(Len(events)))
          /\ LET buf == buffer \o SubSeq(Wire(Len(events)), delivered + 1,
                                         delivered + n)
                 parts == SplitEvents(buf)
                 new == ParsedEvents(SubSeq(parts, 1, Len(parts) - 1))
             IN /\ buffer' = parts[Len(parts)]
                /\ applied' = applied \o new
                /\ shown' = [shown EXCEPT !.msg = ApplyAll(@, events, new)]
          /\ delivered' = delivered + n
    /\ UNCHANGED <<events, ssePc>>
    /\ UNCHANGED aroundSse

\* reader.read() reports done: the stream is complete, or the connection
\* ended in a way the browser takes for the end of the body
ReadDone ==
    /\ ssePc = "reading"
    /\ ssePc' = "ended"
    /\ UNCHANGED <<events, delivered, buffer, applied, shown>>
    /\ UNCHANGED aroundSse

\* reader.read() rejects because the connection broke before the end: the
\* catch of sendMessage keeps the messages whose content is not "" and
\* appends the network error message
ReadFails ==
    /\ ssePc = "reading"
    /\ delivered < Len(Wire(Len(events)))
    /\ ssePc' = "failed"
    /\ shown' = [shown EXCEPT !.present = (shown.msg.content # <<>>)]
    /\ UNCHANGED <<events, delivered, buffer, applied>>
    /\ UNCHANGED aroundSse

(***************************************************************************)
(* Streaming event translation (the for-await loop of the two endpoints)   *)
(***************************************************************************)
\* the text of chunk k of model response r: three characters that name it
ChunkText(r, k) == <<10 * r + k, 10 * r + k, 10 * r + k>>

\* the response a character of model text belongs to
RespOf(ch) == ch \div 10

\* "[AI 未生成回复]"
Placeholder == <<0>>

\* chunkSize of the v1 endpoint
chunkSize == 5

Ev(type, name, text) == [type |-> type, name |-> name, text |-> text]

\* for (i = 0; i < text.length; i += chunkSize) emit text.slice(i, i + chunkSize)
RECURSIVE TokenEvents(_)
TokenEvents(text) ==
    IF text = <<>> THEN <<>>
    ELSE IF Len(text) <= chunkSize THEN <<Ev("token", "", text)>>
    ELSE <<Ev("token", "", SubSeq(text, 1, chunkSize))>>
         \o TokenEvents(SubSeq(text, chunkSize + 1, Len(text)))

HandlerInit ==
    [thinkingContent |-> <<>>, fullReply |-> <<>>, lastAIContent |-> <<>>,
     titleSet |-> FALSE, extraction |-> "off", cleaned |-> FALSE,
     cancelled |-> FALSE]

\* an agent event: e.event is the streamEvents event name
AgentEvent(event, name, reasoning, content, hasToolCalls) ==
    [event |-> event, name |-> name, reasoning |-> reasoning,
     content |-> content, hasToolCalls |-> hasToolCalls]

\* variant of the session loop that closes the reasoning block only at
\* on_tool_start, not at the end of a model response
SessionTranslateOpenEnded(e, h) ==
    CASE e.event = "on_tool_start" ->
           [emit |-> (IF h.thinkingContent # <<>>
                      THEN <<Ev("thinking_end", "", <<>>)>> ELSE <<>>)
                     \o <<Ev("tool_start", e.name, <<>>)>>,
            hs |-> [h EXCEPT !.thinkingContent = <<>>]]
      [] e.event = "on_tool_end" ->
           [emit |-> <<Ev("tool_end", e.name, <<>>)>>, hs |-> h]
      [] e.event = "on_chat_model_stream" ->
           [emit |-> (IF e.reasoning # <<>>
                      THEN <<Ev("thinking", "", e.reasoning)>> ELSE <<>>)
                     \o (IF e.content # <<>>
                         THEN <<Ev("content", "", e.content)>> ELSE <<>>),
            hs |-> [h EXCEPT !.thinkingContent = @ \o e.reasoning,
                             !.fullReply = @ \o e.content]]
      [] e.event = "on_chat_model_end" -> [emit |-> <<>>, hs |-> h]

\* one iteration of the loop of the session endpoint: [emit, hs]
SessionTranslate(e, h) ==
    CASE e.event = "on_tool_start" ->
           [emit |-> (IF h.thinkingContent # <<>>
                      THEN <<Ev("thinking_end", "", <<>>)>> ELSE <<>>)
                     \o <<Ev("tool_start", e.name, <<>>)>>,
            hs |-> [h EXCEPT !.thinkingContent = <<>>]]
      [] e.event = "on_tool_end" ->
           [emit |-> <<Ev("tool_end", e.name, <<>>)>>, hs |-> h]
      [] e.event = "on_chat_model_stream" ->
           [emit |-> (IF e.reasoning # <<>>
                      THEN <<Ev("thinking", "", e.reasoning)>> ELSE <<>>)
                     \o (IF e.content # <<>>
                         THEN <<Ev("content", "", e.content)>> ELSE <<>>),
            hs |-> [h EXCEPT !.thinkingContent = @ \o e.reasoning,
                             !.fullReply = @ \o e.content]]
      [] e.event = "on_chat_model_end" ->
           [emit |-> IF h.thinkingContent # <<>>
                     THEN <<Ev("thinking_end", "", <<>>)>> ELSE <<>>,
            hs |-> [h EXCEPT !.thinkingContent = <<>>]]

\* one iteration of the loop of the v1 endpoint: [emit, hs]
V1Translate(e, h) ==
    CASE e.event = "on_tool_start" ->
           [emit |-> <<Ev("tool_start", e.name, <<>>)>>, hs |-> h]
      [] e.event = "on_tool_end" ->
           [emit |-> <<Ev("tool_end", e.name, <<>>)>>, hs |-> h]
      [] e.event = "on_chat_model_stream" ->
           [emit |-> <<>>, hs |-> [h EXCEPT !.lastAIContent = @ \o e.content]]
      [] e.event = "on_chat_model_end" ->
           IF ~e.hasToolCalls /\ h.lastAIContent # <<>>
           THEN [emit |-> TokenEvents(h.lastAIContent),
                 hs |-> [h EXCEPT !.fullReply = h.lastAIContent,
                                  !.lastAIContent = <<>>]]
           ELSE [emit |-> <<>>, hs |-> [h EXCEPT !.lastAIContent = <<>>]]

Translate(e, h) ==
    IF req.endpoint = "session" THEN SessionTranslate(e, h) ELSE V1Translate(e, h)

\* the loop body runs on an agent event
\* (controller.enqueue throws once the caller has cancelled the stream: an
\* iteration that sends something is then EnqueueThrows)
OnEvent(e) ==
    LET r == Translate(e, hs)
    IN /\ ~(hs.cancelled /\ r.emit # <<>>)
       /\ out' = out \o r.emit
       /\ hs' = r.hs

(***************************************************************************)
(* The plain-text chat route (api/chat) and the v1 endpoint, at the level  *)
(* of UTF-16 code units: text is accumulated per model response and sent   *)
(* in slices of chunkSize code units                                       *)
(***************************************************************************)
\* code unit c of the text of model response r; c = 1, 2: a BMP character,
\* c = 3: a high surrogate, c = 4: a low surrogate
Unit(r, c) == 10 * r + c

\* JSON.stringify writes a lone surrogate u as the escape \uXXXX
EscapeOffset == 100

\* U+FFFD
ReplacementChar == 9

HighSurrogate(u) == u < EscapeOffset /\ u % 10 = 3
LowSurrogate(u) == u < EscapeOffset /\ u % 10 = 4

\* s[i] is a surrogate that is not part of a pair within s
IsLone(s, i) ==
    \/ HighSurrogate(s[i]) /\ (i = Len(s) \/ ~LowSurrogate(s[i + 1]))
    \/ LowSurrogate(s[i]) /\ (i = 1 \/ ~HighSurrogate(s[i - 1]))

\* encoder.encode(s), as the caller decodes it: TextEncoder converts its
\* argument to a USVString, every lone surrogate becomes U+FFFD
EncodeText(s) ==
    [i \in DOMAIN s |-> IF IsLone(s, i) THEN ReplacementChar ELSE s[i]]

\* JSON.stringify of a string (well-formed: lone surrogates are escaped)
JsonStringify(s) ==
    [i \in DOMAIN s |-> IF IsLone(s, i) THEN EscapeOffset + s[i] ELSE s[i]]

\* JSON.parse of the caller
JsonParse(s) ==
    [i \in DOMAIN s |-> IF s[i] >= EscapeOffset THEN s[i] - EscapeOffset ELSE s[i]]

\* the text the caller gets for a string the handler sends: the v1 endpoint
\* sends it inside sseEvent's JSON, the plain route sends it as it is
Received(endpoint, s) ==
    IF endpoint = "v1" THEN JsonParse(EncodeText(JsonStringify(s)))
    ELSE EncodeText(s)

\* for (i = 0; i < text.length; i += chunkSize) text.slice(i, i + chunkSize)
RECURSIVE Slices(_)
Slices(text) ==
    IF text = <<>> THEN <<>>
    ELSE IF Len(text) <= chunkSize THEN <<text>>
    ELSE <<SubSeq(text, 1, chunkSize)>>
         \o Slices(SubSeq(text, chunkSize + 1, Len(text)))

Item(kind, text) == [kind |-> kind, text |-> text]

\* the content of one on_chat_model_stream chunk of response r: well-formed
\* text ("a", "ab", an emoji, "abab")
ContentChunks(r) ==
    { <<Unit(r, 1)>>, <<Unit(r, 1), Unit(r, 2)>>, <<Unit(r, 3), Unit(r, 4)>>,
      <<Unit(r, 1), Unit(r, 2), Unit(r, 1), Unit(r, 2)>> }

EmitHandlerInit ==
    [lastAIContent |-> <<>>, fullReply |-> <<>>, isToolCalling |-> FALSE,
     toolUsed |-> FALSE]

NothingStored == [defined |-> FALSE, content |-> <<>>]
NoTerminal == [defined |-> FALSE, text |-> <<>>]

EmitIdle ==
    /\ emEndpoint = "" /\ emPc = "off" /\ emRound = 0 /\ emH = EmitHandlerInit
    /\ emSent = <<>> /\ emStored = NothingStored /\ emTerminal = NoTerminal
    /\ emToolRounds = {}

InitEmitVars ==
    /\ emEndpoint \in {"plain", "v1"}
    /\ emPc = "model" /\ emRound = 1 /\ emH = EmitHandlerInit
    /\ emSent = <<>> /\ emStored = NothingStored /\ emTerminal = NoTerminal
    /\ emToolRounds = {}

\* on_chat_model_stream: lastAIContent += content
EmitModelStream ==
    /\ emPc = "model"
    /\ \E c \in ContentChunks(emRound) :
          /\ Len(emH.lastAIContent) + Len(c) <= MaxReplyUnits
          /\ emH' = [emH EXCEPT !.lastAIContent = @ \o c]
    /\ UNCHANGED <<emEndpoint, emPc, emRound, emSent, emStored, emTerminal,
                   emToolRounds>>
    /\ UNCHANGED aroundEmit

\* on_chat_model_end: a response without tool calls and with text is the
\* final answer and is sent in slices; lastAIContent is reset in both cases
EmitModelEnd ==
    /\ emPc = "model"
    /\ \E hasToolCalls \in BOOLEAN :
          /\ hasToolCalls => emRound <= MaxRounds
          /\ LET final == ~hasToolCalls /\ emH.lastAIContent # <<>>
                 slices == Slices(emH.lastAIContent)
             IN /\ emH' = [emH EXCEPT
                      !.fullReply = IF final THEN emH.lastAIContent ELSE @,
                      !.isToolCalling =
                          IF emEndpoint = "plain" /\ hasToolCalls THEN TRUE ELSE @,
                      !.lastAIContent = <<>>]
                /\ emSent' = IF final
                             THEN emSent \o [i \in DOMAIN slices |->
                                     Item("answer", Received(emEndpoint, slices[i]))]
                             ELSE emSent
          /\ emTerminal' = IF hasToolCalls THEN emTerminal
                           ELSE [defined |-> TRUE, text |-> emH.lastAIContent]
          /\ emToolRounds' = IF hasToolCalls THEN emToolRounds \cup {emRound}
                             ELSE emToolRounds
          /\ emPc' = IF hasToolCalls THEN "tools" ELSE "ended"
    /\ UNCHANGED <<emEndpoint, emRound, emStored>>
    /\ UNCHANGED aroundEmit

\* on_tool_start: the plain route sends its notice once, the v1 endpoint a
\* tool_start event
EmitToolStart ==
    /\ emPc = "tools"
    /\ IF emEndpoint = "plain"
       THEN /\ emSent' = IF emH.toolUsed THEN emSent
                         ELSE Append(emSent, Item("notice", <<>>))
            /\ emH' = [emH EXCEPT !.isToolCalling = TRUE, !.toolUsed = TRUE]
       ELSE /\ emSent' = Append(emSent, Item("tool_start", <<>>))
            /\ UNCHANGED emH
    /\ emPc' = "tool"
    /\ UNCHANGED <<emEndpoint, emRound, emStored, emTerminal, emToolRounds>>
    /\ UNCHANGED aroundEmit

\* on_tool_end: the plain route sends the sources of a web search when the
\* result names some, the v1 endpoint a tool_end event; the model is next
EmitToolEnd ==
    /\ emPc = "tool"
    /\ IF emEndpoint = "plain"
       THEN \E sources \in BOOLEAN :
               emSent' = IF sources THEN Append(emSent, Item("sources", <<>>))
                         ELSE emSent
       ELSE emSent' = Append(emSent, Item("tool_end", <<>>))
    /\ emPc' = "model"
    /\ emRound' = emRound + 1
    /\ UNCHANGED <<emEndpoint, emH, emStored, emTerminal, emToolRounds>>
    /\ UNCHANGED aroundEmit

\* after the loop. plain route: the fallback text when no reply was
\* captured and isToolCalling is false, then addMessage(fullReply);
\* v1 endpoint: the done event with fullReply. Then controller.close()
EmitFinish ==
    /\ emPc = "ended"
    /\ IF emEndpoint = "plain"
       THEN LET fallback == emH.fullReply = <<>> /\ ~emH.isToolCalling
                reply == IF fallback THEN Placeholder ELSE emH.fullReply
            IN /\ emH' = [emH EXCEPT !.fullReply = reply]
               /\ emSent' = IF fallback
                            THEN Append(emSent, Item("fallback",
                                           Received(emEndpoint, Placeholder)))
                            ELSE emSent
               /\ emStored' = [defined |-> TRUE, content |-> reply]
       ELSE /\ emSent' = Append(emSent, Item("done",
                                   Received(emEndpoint, emH.fullReply)))
            /\ UNCHANGED <<emH, emStored>>
    /\ emPc' = "closed"
    /\ UNCHANGED <<emEndpoint, emRound, emTerminal, emToolRounds>>
    /\ UNCHANGED aroundEmit

\* the model call rejects: catch sends the error text / event, finally
\* closes the stream
EmitModelFails ==
    /\ emPc = "model"
    /\ emSent' = Append(emSent, Item("error", <<>>))
    /\ emPc' = "failed"
    /\ UNCHANGED <<emEndpoint, emRound, emH, emStored, emTerminal, emToolRounds>>
    /\ UNCHANGED aroundEmit

(***************************************************************************)
(* The ReAct agent (createReactAgent) driven by streamEvents, and the      *)
(* POST handlers consuming its events                                      *)
(***************************************************************************)
\* tools the model asks for in the explored runs, when they are bound
ModelPicks == {webSearchTool, "get_blog_db_schema"}

Pickable == Range(tools) \cap ModelPicks

RECURSIVE CallLists(_, _)
CallLists(n, names) ==
    IF n = 0 THEN {<<>>}
    ELSE LET shorter == CallLists(n - 1, names)
         IN shorter \cup {Append(q, t) : q \in {r \in shorter : Len(r) = n - 1},
                                          t \in names}

NoRequest ==
    [endpoint |-> "", webSearchEnabled |-> FALSE,
     toolNames |-> Undefined, mcpTools |-> <<>>]

AgentOff ==
    [phase |-> "off", steps |-> 0, resp |-> 0, k |-> 0, chunksUsed |-> 0,
     callsUsed |-> 0, calls |-> <<>>, messages |-> <<>>, err |-> ""]

Msg(role, resp, name, status, ncalls) ==
    [role |-> role, resp |-> resp, name |-> name, status |-> status,
     ncalls |-> ncalls]

ChatIdle ==
    /\ pc = "off" /\ req = NoRequest /\ tools = <<>> /\ agent = AgentOff
    /\ out = <<>> /\ hs = HandlerInit /\ db = <<>>

InitChatVars ==
    /\ pc = "start" /\ req = NoRequest /\ tools = <<>> /\ agent = AgentOff
    /\ out = <<>> /\ hs = HandlerInit /\ db = <<>>

\* POST up to `new ReadableStream`: the user message is stored (session
\* endpoint), the tools are chosen, the agent is created and started
StartRequest ==
    /\ pc = "start"
    /\ \E r \in Requests :
          /\ req' = r
          /\ tools' = BoundTools(r)
          /\ db' = IF r.endpoint = "session"
                   THEN <<[role |-> "user", content |-> <<>>]>> ELSE <<>>
    /\ agent' = [AgentOff EXCEPT !.phase = "model", !.resp = 1]
    /\ pc' = "stream"
    /\ UNCHANGED <<out, hs>>
    /\ UNCHANGED aroundChat

\* the model streams one chunk: reasoning_content or content
ModelChunk ==
    /\ pc = "stream" /\ agent.phase = "model"
    /\ agent.chunksUsed < MaxStreamChunks
    /\ \E kind \in {"reasoning", "content"} :
          LET t == ChunkText(agent.resp, agent.k + 1)
          IN OnEvent(AgentEvent("on_chat_model_stream", "",
                                IF kind = "reasoning" THEN t ELSE <<>>,
                                IF kind = "content" THEN t ELSE <<>>, FALSE))
    /\ agent' = [agent EXCEPT !.k = @ + 1, !.chunksUsed = @ + 1]
    /\ UNCHANGED <<pc, req, tools, db>>
    /\ UNCHANGED aroundChat

\* the graph schedules the next node, unless the recursion limit is reached
NextNode(steps, node) == IF steps >= RecursionLimit THEN "out_of_steps" ELSE node

\* the model response ends, with the tool calls cl (none: the graph ends)
ModelEnd ==
    /\ pc = "stream" /\ agent.phase = "model"
    /\ \E cl \in CallLists(MaxCalls - agent.callsUsed, Pickable) :
          /\ OnEvent(AgentEvent("on_chat_model_end", "", <<>>, <<>>, cl # <<>>))
          /\ agent' = [agent EXCEPT
                 !.steps = @ + 1,
                 !.phase = IF cl = <<>> THEN "ended"
                           ELSE NextNode(agent.steps + 1, "tools"),
                 !.calls = [i \in DOMAIN cl |-> [name |-> cl[i], st |-> "pending"]],
                 !.callsUsed = @ + Len(cl),
                 !.messages = Append(@, Msg("ai", agent.resp, "", "", Len(cl)))]
    /\ UNCHANGED <<pc, req, tools, db>>
    /\ UNCHANGED aroundChat

\* catch (error) of the stream: one `error` event, then finally
CatchError(cause) ==
    /\ out' = IF hs.cancelled THEN out ELSE Append(out, Ev("error", "", <<>>))
    /\ agent' = [agent EXCEPT !.phase = "threw",
                              !.err = IF @ = "" THEN cause ELSE @]
    /\ pc' = "finally"

\* the failure of the model call is swallowed and the run ends as if the
\* model had answered
ModelFailureSwallowed ==
    /\ pc = "stream" /\ agent.phase = "model"
    /\ agent' = [agent EXCEPT !.phase = "ended", !.err = "model"]
    /\ UNCHANGED <<pc, out, req, tools, hs, db>>
    /\ UNCHANGED aroundChat

\* the caller disconnects while the stream is open: the runtime cancels the
\* ReadableStream (start() has no cancel handler and keeps running)
ClientDisconnects ==
    /\ pc = "stream"
    /\ ~hs.cancelled
    /\ hs' = [hs EXCEPT !.cancelled = TRUE]
    /\ UNCHANGED <<pc, req, tools, agent, out, db>>
    /\ UNCHANGED aroundChat

\* the next thing the handler does is a sendSSE / controller.enqueue
NextEmits ==
    \/ /\ agent.phase = "model"
       /\ agent.chunksUsed < MaxStreamChunks
       /\ \E kind \in {"reasoning", "content"} :
             LET t == ChunkText(agent.resp, agent.k + 1)
             IN Translate(AgentEvent("on_chat_model_stream", "",
                              IF kind = "reasoning" THEN t ELSE <<>>,
                              IF kind = "content" THEN t ELSE <<>>, FALSE),
                          hs).emit # <<>>
    \/ /\ agent.phase = "model"
       /\ \E cl \in CallLists(MaxCalls - agent.callsUsed, Pickable) :
             Translate(AgentEvent("on_chat_model_end", "", <<>>, <<>>,
                                  cl # <<>>), hs).emit # <<>>
    \/ /\ agent.phase = "tools"
       /\ \E i \in DOMAIN agent.calls : agent.calls[i].st \in {"pending", "running"}
    \/ agent.phase = "ended"

\* sendSSE after the cancellation: controller.enqueue throws inside the
\* loop (or at the fallback / `done`), the catch block's own sendSSE throws
\* too, finally runs; nothing after the throwing statement is executed
EnqueueThrows ==
    /\ pc = "stream"
    /\ hs.cancelled
    /\ NextEmits
    /\ agent' = [agent EXCEPT !.phase = "threw", !.err = "sink"]
    /\ pc' = "finally"
    /\ UNCHANGED <<req, tools, out, hs, db>>
    /\ UNCHANGED aroundChat

\* the model call fails: streamEvents rejects
ModelFails ==
    /\ pc = "stream" /\ agent.phase = "model"
    /\ CatchError("model")
    /\ UNCHANGED <<req, tools, hs, db>>
    /\ UNCHANGED aroundChat

\* GraphRecursionError: streamEvents rejects
RecursionError ==
    /\ pc = "stream" /\ agent.phase = "out_of_steps"
    /\ CatchError("recursion")
    /\ UNCHANGED <<req, tools, hs, db>>
    /\ UNCHANGED aroundChat

\* ToolNode starts the calls of the response in request order
ToolStart(i) ==
    /\ pc = "stream" /\ agent.phase = "tools"
    /\ agent.calls[i].st = "pending"
    /\ \A j \in 1..(i - 1) : agent.calls[j].st # "pending"
    /\ OnEvent(AgentEvent("on_tool_start", agent.calls[i].name, <<>>, <<>>, FALSE))
    /\ agent' = [agent EXCEPT !.calls[i].st = "running"]
    /\ UNCHANGED <<pc, req, tools, db>>
    /\ UNCHANGED aroundChat

\* a running tool returns its text
ToolReturns(i) ==
    /\ pc = "stream" /\ agent.phase = "tools"
    /\ agent.calls[i].st = "running"
    /\ OnEvent(AgentEvent("on_tool_end", agent.calls[i].name, <<>>, <<>>, FALSE))
    /\ agent' = [agent EXCEPT !.calls[i].st = "returned"]
    /\ UNCHANGED <<pc, req, tools, db>>
    /\ UNCHANGED aroundChat

\* variant: the exception of a tool escapes the graph and ends the stream
ToolThrowAborts(i) ==
    /\ CatchError("tool")
    /\ UNCHANGED hs

\* ToolNode catches the exception of a tool: the call is settled with an
\* error message, no on_tool_end event is produced, the graph goes on
ToolThrowCaught(i) ==
    /\ agent' = [agent EXCEPT !.calls[i].st = "threw"]
    /\ UNCHANGED <<pc, out, hs>>

\* a running tool throws
ToolThrows(i) ==
    /\ pc = "stream" /\ agent.phase = "tools"
    /\ agent.calls[i].st = "running"
    /\ CanThrow(agent.calls[i].name)
    /\ ToolThrowCaught(i)
    /\ UNCHANGED <<req, tools, db>>
    /\ UNCHANGED aroundChat

\* the ToolMessages of a settled round, in request order
ToolMessages(calls, resp) ==
    [i \in DOMAIN calls |->
        Msg("tool", resp, calls[i].name,
            IF calls[i].st = "threw" THEN "error" ELSE "ok", 0)]

\* all calls of the response are settled: their messages are appended and
\* the model is the next node
ToolsDone ==
    /\ pc = "stream" /\ agent.phase = "tools"
    /\ \A i \in DOMAIN agent.calls : agent.calls[i].st \in {"returned", "threw"}
    /\ agent' = [agent EXCEPT
           !.steps = @ + 1,
           !.phase = NextNode(agent.steps + 1, "model"),
           !.resp = @ + 1,
           !.k = 0,
           !.calls = <<>>,
           !.messages = @ \o ToolMessages(agent.calls, agent.resp)]
    /\ UNCHANGED <<pc, req, tools, out, hs, db>>
    /\ UNCHANGED aroundChat

\* the event loop is over: fallback text (session endpoint), then `done`
FinishStream ==
    /\ pc = "stream" /\ agent.phase = "ended"
    /\ ~hs.cancelled
    /\ IF req.endpoint = "session"
       THEN LET fallback == hs.fullReply = <<>>
                reply == IF fallback THEN Placeholder ELSE hs.fullReply
            IN /\ hs' = [hs EXCEPT !.fullReply = reply]
               /\ out' = out
                         \o (IF fallback THEN <<Ev("content", "", Placeholder)>>
                             ELSE <<>>)
                         \o <<Ev("done", "", <<>>)>>
               /\ pc' = "persist"
       ELSE /\ out' = Append(out, Ev("done", "", hs.fullReply))
            /\ pc' = "finally"
            /\ UNCHANGED hs
    /\ UNCHANGED <<req, tools, agent, db>>
    /\ UNCHANGED aroundChat

\* await addMessage(sessionId, "assistant", fullReply) succeeds; the title is
\* updated next when the session still has the default title
PersistReply ==
    /\ pc = "persist"
    /\ db' = Append(db, [role |-> "assistant", content |-> hs.fullReply])
    /\ \E titleIsDefault \in BOOLEAN :
          pc' = IF titleIsDefault /\ Len(hs.fullReply) > 0 THEN "title" ELSE "extract"
    /\ UNCHANGED <<req, tools, agent, out, hs>>
    /\ UNCHANGED aroundChat

\* await addMessage(...) rejects: the catch block runs
PersistFails ==
    /\ pc = "persist"
    /\ CatchError("persist")
    /\ UNCHANGED <<req, tools, hs, db>>
    /\ UNCHANGED aroundChat

\* await updateSessionTitle(...) succeeds
UpdateTitle ==
    /\ pc = "title"
    /\ hs' = [hs EXCEPT !.titleSet = TRUE]
    /\ pc' = "extract"
    /\ UNCHANGED <<req, tools, agent, out, db>>
    /\ UNCHANGED aroundChat

\* await updateSessionTitle(...) rejects: the catch block runs
UpdateTitleFails ==
    /\ pc = "title"
    /\ CatchError("title")
    /\ UNCHANGED <<req, tools, hs, db>>
    /\ UNCHANGED aroundChat

\* extractAndSaveMemory(...) is started and not awaited
StartExtraction ==
    /\ pc = "extract"
    /\ hs' = [hs EXCEPT !.extraction = "running"]
    /\ pc' = "finally"
    /\ UNCHANGED <<req, tools, agent, out, db>>
    /\ UNCHANGED aroundChat

\* how a run of extractAndSaveMemory can end: the exchange is too short,
\* the auxiliary model call rejects, the output is NONE or has no line of
\* three parts, a record is saved, saveMemory rejects
ExtractionOutcomes ==
    {"skipped", "model_error", "nothing", "saved", "save_error"}

ExtractionFailures == {"model_error", "save_error"}

\* extractAndSaveMemory without its try/catch and with the caller awaiting
\* it inside the stream's try: a failure reaches the catch of the handler
ExtractionRethrows ==
    /\ hs.extraction = "running"
    /\ \E o \in ExtractionOutcomes :
          /\ hs' = [hs EXCEPT !.extraction = o]
          /\ out' = IF o \in ExtractionFailures
                    THEN Append(out, Ev("error", "", <<>>))
                    ELSE out
    /\ UNCHANGED <<pc, req, tools, agent, db>>
    /\ UNCHANGED aroundChat

\* the started extractAndSaveMemory settles, at any time after its start:
\* its own try/catch logs every failure, the caller's .catch does the rest
ExtractionSettles ==
    /\ hs.extraction = "running"
    /\ \E o \in ExtractionOutcomes : hs' = [hs EXCEPT !.extraction = o]
    /\ UNCHANGED <<pc, req, tools, agent, out, db>>
    /\ UNCHANGED aroundChat

\* finally: mcpCleanup() when MCP tools were merged, controller.close()
Finally ==
    /\ pc = "finally"
    /\ hs' = [hs EXCEPT !.cleaned = (req.endpoint = "session"
                                     /\ Len(req.mcpTools) > 0)]
    /\ pc' = "closed"
    /\ UNCHANGED <<req, tools, agent, out, db>>
    /\ UNCHANGED aroundChat

(***************************************************************************)
(* Specifications                                                          *)
(***************************************************************************)
InitTools == InitToolVars /\ ChatIdle /\ RagIdle /\ BmIdle /\ MemIdle /\ MsgIdle
    /\ McpIdle
    /\ EmitIdle
    /\ IsoIdle
    /\ AfterIdle
    /\ CleanIdle
    /\ SseIdle

NextTools ==
    \/ StartExternalCall
    \/ TimeoutFires
    \/ ExecuteTool

SpecTools == InitTools /\ [][NextTools]_vars

InitChat == ToolsIdle /\ InitChatVars /\ RagIdle /\ BmIdle /\ MemIdle /\ MsgIdle
    /\ McpIdle
    /\ EmitIdle
    /\ IsoIdle
    /\ AfterIdle
    /\ CleanIdle
    /\ SseIdle

NextChat ==
    \/ StartRequest
    \/ ModelChunk
    \/ ModelEnd
    \/ ModelFails
    \/ RecursionError
    \/ ClientDisconnects
    \/ EnqueueThrows
    \/ \E i \in 1..MaxCalls : i \in DOMAIN agent.calls /\ ToolStart(i)
    \/ \E i \in 1..MaxCalls : i \in DOMAIN agent.calls /\ ToolReturns(i)
    \/ \E i \in 1..MaxCalls : i \in DOMAIN agent.calls /\ ToolThrows(i)
    \/ ToolsDone
    \/ FinishStream
    \/ PersistReply
    \/ PersistFails
    \/ UpdateTitle
    \/ UpdateTitleFails
    \/ StartExtraction
    \/ ExtractionSettles
    \/ Finally

SpecChat == InitChat /\ [][NextChat]_vars

InitRag == ToolsIdle /\ ChatIdle /\ InitRagVars /\ BmIdle /\ MemIdle /\ MsgIdle
    /\ McpIdle
    /\ EmitIdle
    /\ IsoIdle
    /\ AfterIdle
    /\ CleanIdle
    /\ SseIdle

NextRag ==
    \E c \in Callers :
       \/ CallSearch(c)
       \/ WaitOver(c)
       \/ LoadSettles(c)
       \/ EmbedSettles(c)
       \/ SearchTiers(c)

SpecRag == InitRag /\ [][NextRag]_vars

InitBm == ToolsIdle /\ ChatIdle /\ RagIdle /\ InitBmVars /\ MemIdle /\ MsgIdle
    /\ McpIdle
    /\ EmitIdle
    /\ IsoIdle
    /\ AfterIdle
    /\ CleanIdle
    /\ SseIdle

NextBm == Bm25Query

SpecBm == InitBm /\ [][NextBm]_vars

InitMem == ToolsIdle /\ ChatIdle /\ RagIdle /\ BmIdle /\ InitMemVars /\ MsgIdle
    /\ McpIdle
    /\ EmitIdle
    /\ IsoIdle
    /\ AfterIdle
    /\ CleanIdle
    /\ SseIdle

NextMem ==
    \/ SaveMemory
    \/ MemoryCallFails
    \/ SearchMemories

SpecMem == InitMem /\ [][NextMem]_vars

InitMsg == ToolsIdle /\ ChatIdle /\ RagIdle /\ BmIdle /\ MemIdle /\ InitMsgVars
    /\ McpIdle
    /\ EmitIdle
    /\ IsoIdle
    /\ AfterIdle
    /\ CleanIdle
    /\ SseIdle

NextMsg ==
    \/ AddMessage
    \/ GetRecentMessages

SpecMsg == InitMsg /\ [][NextMsg]_vars

InitMcp ==
    /\ ToolsIdle /\ ChatIdle /\ RagIdle /\ BmIdle /\ MemIdle /\ MsgIdle
    /\ InitMcpVars
    /\ EmitIdle
    /\ IsoIdle
    /\ AfterIdle
    /\ CleanIdle
    /\ SseIdle

NextMcp == GetMcpTools

SpecMcp == InitMcp /\ [][NextMcp]_vars

InitEmit ==
    /\ ToolsIdle /\ ChatIdle /\ RagIdle /\ BmIdle /\ MemIdle /\ MsgIdle
    /\ McpIdle
    /\ InitEmitVars
    /\ IsoIdle
    /\ AfterIdle
    /\ CleanIdle
    /\ SseIdle

NextEmit ==
    \/ EmitModelStream
    \/ EmitModelEnd
    \/ EmitToolStart
    \/ EmitToolEnd
    \/ EmitFinish
    \/ EmitModelFails

SpecEmit == InitEmit /\ [][NextEmit]_vars

InitIso ==
    /\ ToolsIdle /\ ChatIdle /\ RagIdle /\ BmIdle /\ MemIdle /\ MsgIdle
    /\ McpIdle /\ EmitIdle
    /\ InitIsoVars
    /\ AfterIdle
    /\ CleanIdle
    /\ SseIdle

NextIso ==
    \/ \E u \in Users : CreateSession(u)
    \/ \E u \in Users : ListSessions(u)
    \/ \E u \in Users, id \in SessionIds : GetSessionMessages(u, id)
    \/ \E u \in Users, id \in SessionIds : DeleteSession(u, id)
    \/ \E u \in Users, id \in SessionIds : PostChat(u, id)

SpecIso == InitIso /\ [][NextIso]_vars

InitAfter ==
    /\ ToolsIdle /\ ChatIdle /\ RagIdle /\ BmIdle /\ MemIdle /\ MsgIdle
    /\ McpIdle /\ EmitIdle /\ IsoIdle
    /\ InitAfterVars
    /\ CleanIdle
    /\ SseIdle

NextAfter == AfterToolCall

SpecAfter == InitAfter /\ [][NextAfter]_vars

InitClean ==
    /\ ToolsIdle /\ ChatIdle /\ RagIdle /\ BmIdle /\ MemIdle /\ MsgIdle
    /\ McpIdle /\ EmitIdle /\ IsoIdle /\ AfterIdle
    /\ InitCleanVars
    /\ SseIdle

NextClean ==
    \/ NoServers
    \/ \E s \in ServerIds : ConnectServer(s)
    \/ ToolsLoaded
    \/ LoadFails
    \/ MergeTools
    \/ StreamStarts
    \/ SetupFails
    \/ StreamEnds
    \/ ClientCloses

SpecClean == InitClean /\ [][NextClean]_vars

InitSse ==
    /\ ToolsIdle /\ ChatIdle /\ RagIdle /\ BmIdle /\ MemIdle /\ MsgIdle
    /\ McpIdle /\ EmitIdle /\ IsoIdle /\ AfterIdle /\ CleanIdle
    /\ InitSseVars

NextSse ==
    \/ ReadChunk
    \/ ReadDone
    \/ ReadFails

SpecSse == InitSse /\ [][NextSse]_vars

(***************************************************************************)
(* Properties                                                              *)
(***************************************************************************)
Last(q) == q[Len(q)]

Terminal == {"done", "error"}

\* indices of the events of a type (and tool name) among the first n events
EventsOf(type, name, n) ==
    {i \in 1..n : out[i].type = type /\ out[i].name = name}

\* the AIMessages of the run so far
AiMessages == {i \in DOMAIN agent.messages : agent.messages[i].role = "ai"}

\* model response r asked for at least one tool
HasToolCalls(r) ==
    \E i \in AiMessages :
       agent.messages[i].resp = r /\ agent.messages[i].ncalls > 0

\* C1: on the session endpoint no `content` event carries text of a model
\* response that contains a tool-call request.
ContentOnlyFromTerminalResponse ==
    req.endpoint = "session" =>
       \A i \in DOMAIN out :
          (out[i].type = "content" /\ out[i].text # Placeholder)
             => ~HasToolCalls(RespOf(out[i].text[1]))

\* C2: a stream of the session endpoint has exactly one terminal event, done
\* or error, and it is the last event: nothing follows `done`.
SingleTerminalEventLast ==
    req.endpoint = "session" =>
       /\ \A i \in 1..(Len(out) - 1) : out[i].type \notin Terminal
       /\ (pc = "closed" /\ ~hs.cancelled)
             => (out # <<>> /\ Last(out).type \in Terminal)

\* C3: in a stream that ends with `done`, tool_start and tool_end events
\* correspond one to one per tool: no tool_end without an earlier unmatched
\* tool_start, and every tool_start has its tool_end.
ToolEventsPaired ==
    (out # <<>> /\ Last(out).type = "done") =>
       \A name \in Range(ALL_TOOLS) :
          /\ \A n \in 0..Len(out) :
                Cardinality(EventsOf("tool_end", name, n))
                   <= Cardinality(EventsOf("tool_start", name, n))
          /\ Cardinality(EventsOf("tool_end", name, Len(out)))
                = Cardinality(EventsOf("tool_start", name, Len(out)))

\* every model response of the run asked for a tool
EveryTurnCallsTool ==
    /\ AiMessages # {}
    /\ \A i \in AiMessages : agent.messages[i].ncalls > 0

\* C4: when the model requests a tool call on every turn, the loop stops, a
\* non-empty answer is emitted as `content` and the stream ends with `done`,
\* not with `error`.
ToolLoopEndsWithAnswer ==
    (pc = "closed" /\ req.endpoint = "session" /\ EveryTurnCallsTool
       /\ agent.err # "model" /\ ~hs.cancelled)
    => /\ out # <<>>
       /\ Last(out).type = "done"
       /\ \E i \in DOMAIN out : out[i].type = "content" /\ out[i].text # <<>>

\* C5: with webSearchEnabled false, web_search is not among the tools bound
\* to the agent, for every other request option, and no tool_start for
\* web_search is emitted.
NoWebSearchWhenDisabled ==
    (pc # "start" /\ ~req.webSearchEnabled) =>
       /\ webSearchTool \notin Range(tools)
       /\ \A i \in DOMAIN out :
             ~(out[i].type = "tool_start" /\ out[i].name = webSearchTool)

\* the statement is read-only in the sense of the documentation
ReadOnlyStatement(sql) ==
    LET t == ToLowerCase(Trim(sql))
    IN /\ StartsWith(t, KwSelect) \/ StartsWith(t, KwWith)
       /\ \A i \in DOMAIN dangerous : ~RegexWordTest(t, dangerous[i])

QueryDone == toolPc = "done" /\ toolName = "query_blog_db"

\* C6: executeReadOnlyQuery sends a statement to the database only if it
\* begins with select or with and holds no mutating keyword as a standalone
\* token; any other input gets an error text and nothing is sent.
OnlyReadOnlyStatementsSent ==
    QueryDone =>
       /\ dbLog # <<>> => ReadOnlyStatement(sqlArg)
       /\ ~ReadOnlyStatement(sqlArg) =>
             /\ toolResult.kind = "text"
             /\ toolResult.tag \in {"error_not_select", "error_keyword"}
             /\ dbLog = <<>>

\* C7: every statement executeReadOnlyQuery executes carries a row limit of
\* at most 50, so a result never has more than 50 rows.
RowsCappedAtLimit ==
    (QueryDone /\ dbLog # <<>>) =>
       /\ StatementLimit(dbLog[1]) \in 1..RowLimit
       /\ toolResult.rows <= RowLimit

\* the failures named by C8
ListedFailures ==
    {"missing_config", "connect_failure", "query_error", "http_error",
     "network_exception"}

\* C8: the execute of every registry tool returns a text and never throws,
\* for every failure of its service: missing configuration, connection-pool
\* or connect failure, query error, HTTP error, network exception.
ToolsNeverThrow ==
    (toolPc = "done" /\ svcFailure \in ListedFailures) => toolResult.kind = "text"

\* a tool round is in progress and this step leaves it
ToolRoundEnds ==
    agent.phase = "tools" /\ agent'.phase # "tools" /\ agent'.err # "sink"

\* C9: when a tool's execute throws during a tool-calling turn, the stream
\* is not ended by it: no `error` event is emitted during the tool round, an
\* error ToolMessage for the request is appended with the other results of
\* the round, in request order, and the model is the next node to run (as
\* long as the recursion limit allows another step).
ToolFailureFedBack ==
    [][ /\ (agent.phase = "tools" /\ agent'.err # "sink") =>
              /\ agent'.phase \in {"tools", "model", "out_of_steps"}
              /\ pc' = "stream"
              /\ \A i \in DOMAIN out' : i > Len(out) => out'[i].type # "error"
        /\ ToolRoundEnds =>
              /\ Len(agent'.messages) = Len(agent.messages) + Len(agent.calls)
              /\ \A i \in DOMAIN agent.calls :
                    LET m == agent'.messages[Len(agent.messages) + i]
                    IN /\ m.role = "tool"
                       /\ m.name = agent.calls[i].name
                       /\ (m.status = "error") = (agent.calls[i].st = "threw")
              /\ agent.steps + 1 < RecursionLimit =>
                    (agent'.phase = "model" /\ agent'.resp = agent.resp + 1)
      ]_vars

\* C9 witness: a tool threw, its error message was fed back, the model ran
\* again and the stream ended with `done`.
ToolFailureThenDone ==
    /\ pc = "closed"
    /\ out # <<>>
    /\ Last(out).type = "done"
    /\ \E i \in DOMAIN agent.messages :
          /\ agent.messages[i].role = "tool"
          /\ agent.messages[i].status = "error"
          /\ \E j \in AiMessages : j > i

\* C10: at most one knowledge-base build is in progress at any time; a new
\* build starts only when none is in flight, and a caller waiting on
\* isInitializing leaves the wait by returning, never by building.
SingleFlightBuild ==
    /\ [](Cardinality(Builders) <= 1)
    /\ [][ /\ builds' > builds => Builders = {}
           /\ \A c \in Callers :
                 cpc[c] = "waiting" => cpc'[c] \in {"waiting", "search"}
         ]_vars

\* C10 witness: one caller is building while another waits on the flag.
BuilderAndWaiter ==
    \E c1, c2 \in Callers :
       /\ c1 # c2
       /\ cpc[c1] \in {"loading", "embedding"}
       /\ cpc[c2] = "waiting"

\* C11: whatever the outcome of a build attempt, the knowledge-base build is
\* executed at most once in a process, and once a build attempt is over the
\* BM25 chunk list and the vector store are never modified again.
BuildAtMostOnce ==
    /\ [](builds <= 1)
    /\ [][ (builds >= 1 /\ Builders = {}) =>
              UNCHANGED <<bm25Chunks, vectorStore>> ]_vars

\* C12 as stated: a settled searchKnowledge call returns the Tier 1 text
\* when the vector store is available and yields a non-empty result, else
\* the Tier 2 (BM25) text when that is non-empty, else the nothing-found
\* sentinel; never the empty string.
TierFallbackAsStated ==
    cres.kind = "returned" =>
       /\ cres.ret # ""
       /\ cres.ret =
             (IF cres.avail /\ cres.sim = "hits" THEN VectorHitsText
              ELSE IF cres.top = "hits" THEN Bm25HitsText
              ELSE NothingFoundText)

\* C12 amended: the same, except that with an empty corpus (no BM25 chunk)
\* the knowledge-base-empty text is returned whatever the tiers would give;
\* and the call never ends by an exception of the vector tier.
TierFallback ==
    /\ cres.kind = "threw" => cres.sim # "throws"
    /\ cres.kind = "returned" =>
          /\ cres.ret # ""
          /\ cres.ret =
                (IF cres.chunks = 0 THEN KbEmptyText
                 ELSE IF cres.avail /\ cres.sim = "hits" THEN VectorHitsText
                 ELSE IF cres.top = "hits" THEN Bm25HitsText
                 ELSE NothingFoundText)

\* C12 witness: the vector tier raised at query time and BM25 answered
VectorThrowsBm25Answers ==
    /\ cres.kind = "returned"
    /\ cres.avail /\ cres.sim = "throws"
    /\ cres.ret = Bm25HitsText

\* the one-chunk corpus whose only token is "bao xiao", repeated
RepeatedTokenCorpus == << <<"bao", "xiao", " ", "bao", "xiao">> >>

\* C13: with the one-chunk corpus whose only token is the repeated word and
\* the semantic tier unavailable, the query made of that word followed by
\* two more characters scores the chunk above 0 and gets it back; a query
\* that shares no token with the chunk gets the nothing-found sentinel.
Bm25FindsRepeatedToken ==
    (bmPc = "done" /\ corpus = RepeatedTokenCorpus) =>
       /\ query = <<"bao", "xiao", "liu", "cheng">> =>
             (bmHits = {1} /\ bmRet = Bm25HitsText)
       /\ (\A q \in DOMAIN tokenize(query) :
              TermFreq(tokenize(query)[q], tokenize(corpus[1])) = 0) =>
             bmRet = NothingFoundText

\* the stored rows with the keywords of C14
PetRows == {i \in DOMAIN mems : mems[i].keywords = PetKeywords}

\* the query of the last search holds the token "chong wu"
QueryHasPetToken ==
    \E i \in DOMAIN QueryTokens(memLast.query) :
       QueryTokens(memLast.query)[i] = <<"chong", "wu">>

\* C14 as stated: once saveMemory has stored the record with the keywords,
\* every later searchMemories call whose query holds the token returns it,
\* whatever else has been stored.
PetMemoryAlwaysReturned ==
    (memLast.op = "searched" /\ QueryHasPetToken) => PetRows \subseteq memLast.ids

\* the matching rows that do not sort after row i
RowsNotAfter(i, q) ==
    {j \in MatchingIds(mems, q) \ {i} : ~SortsBefore(mems[i], mems[j])}

\* C14 amended: the record is returned by every later search whose query
\* holds the token, provided fewer than `limit` other matching records sort
\* before it or tie with it (importance first, then recency); and stored
\* records are never removed or changed.
PetMemoryReturnedWithinLimit ==
    /\ [](\A i \in PetRows :
            (/\ memLast.op = "searched"
             /\ QueryHasPetToken
             /\ Cardinality(RowsNotAfter(i, memLast.query)) < memLast.limit)
            => i \in memLast.ids)
    /\ [][\A i \in DOMAIN mems : i \in DOMAIN mems' /\ mems'[i] = mems[i]]_vars

\* C14 witness: the record is returned although other matching records were
\* stored before and after it
PetMemoryFoundAmongOthers ==
    /\ memLast.op = "searched"
    /\ QueryHasPetToken
    /\ \E i \in PetRows :
          /\ i \in memLast.ids
          /\ \E j, k \in MatchingIds(mems, memLast.query) : j < i /\ i < k

\* the assistant messages persisted so far
PersistedReplies == {i \in DOMAIN db : db[i].role = "assistant"}

\* C15: a run of the memory extraction, failing or not, emits no event
\* (so no `error`), changes neither the events sent nor the persisted
\* messages nor the position of the handler; and it is started only after
\* `done` was sent and the reply was persisted, so neither waits for it.
ExtractionNeverAffectsTurn ==
    /\ [](hs.extraction # "off" =>
            /\ EventsOf("done", "", Len(out)) # {}
            /\ PersistedReplies # {})
    /\ [][ (hs.extraction = "running" /\ hs'.extraction # "running") =>
              UNCHANGED <<out, db, pc>> ]_vars
    /\ [][ hs.extraction # "off" =>
              (\A i \in DOMAIN out : out'[i] = out[i]) /\ db' = db ]_vars

\* C15 witness: the extraction failed and the turn ended with `done`
ExtractionFailedTurnDone ==
    /\ hs.extraction \in ExtractionFailures
    /\ pc = "closed"
    /\ Last(out).type = "done"
    /\ PersistedReplies # {}

\* the ids of the n most recently appended rows of a session, in the order
\* in which they were appended
RECURSIVE LastAppended(_, _, _)
LastAppended(rows, sessionId, n) ==
    IF rows = <<>> \/ n = 0 THEN <<>>
    ELSE IF rows[Len(rows)].session_id = sessionId
    THEN Append(LastAppended(SubSeq(rows, 1, Len(rows) - 1), sessionId, n - 1),
                Len(rows))
    ELSE LastAppended(SubSeq(rows, 1, Len(rows) - 1), sessionId, n)

\* C16: getRecentMessages(session, N) returns exactly the min(N, total) most
\* recently appended messages of the session in append order, also when
\* creation timestamps are equal, and the endpoint feeds them to the agent
\* in that order, before the new message.
RecentMessagesInAppendOrder ==
    msgLast.op = "read" =>
       /\ msgLast.rows = LastAppended(msgs, msgLast.session_id, msgLast.limit)
       /\ SubSeq(msgLast.input, 1, Len(msgLast.rows)) = msgLast.rows

\* C17: once the model call of a request has failed, the stream ends with
\* `error` (when the caller is still there to receive it) and holds no `done`; the model is not invoked again; no assistant
\* message is persisted and no memory extraction is started; the persisted
\* user message stays as it is.
ModelFailureEndsTurn ==
    /\ [](agent.err = "model" =>
            /\ ~hs.cancelled =>
                  /\ out # <<>>
                  /\ Last(out).type = "error"
                  /\ Cardinality(EventsOf("error", "", Len(out))) = 1
            /\ EventsOf("done", "", Len(out)) = {}
            /\ agent.phase = "threw"
            /\ PersistedReplies = {}
            /\ hs.extraction = "off")
    /\ [][ (agent.err = "model" \/ agent'.err = "model") =>
              (db' = db /\ agent'.messages = agent.messages) ]_vars

\* C17 witness: the model call failed in the turn after a tool round, and
\* the request is over
ModelFailedAfterToolRound ==
    /\ agent.err = "model"
    /\ pc = "closed"
    /\ EventsOf("tool_end", "get_blog_db_schema", Len(out)) # {}
    /\ req.endpoint = "session"
    /\ Len(db) = 1

\* C18: when the caller disconnects while the stream is open, the turn of
\* the session endpoint still runs to completion: unless the model call or
\* the persistence itself fails, the final reply is persisted and the memory
\* extraction is started; only the events are dropped.
DisconnectedTurnCompletes ==
    (/\ pc = "closed"
     /\ req.endpoint = "session"
     /\ hs.cancelled
     /\ agent.err \notin {"model", "recursion", "persist", "title"})
    => (PersistedReplies # {} /\ hs.extraction # "off")

\* C19: every external call a tool awaits is bounded by a timeout of its
\* own, so that a service that never responds cannot stall the tool.
ExternalCallsHaveTimeouts ==
    toolPc = "waiting" => pending.timeout > 0

\* C20: after getMcpTools and the merge, every tool name offered to the
\* model is non-empty and made of [A-Za-z0-9_-] only, and the names of the
\* tool set are pairwise distinct.
ToolNamesValidAndDistinct ==
    mcpPc = "done" =>
       /\ \A i \in DOMAIN toolSet :
             /\ toolSet[i] # <<>>
             /\ \A k \in DOMAIN toolSet[i] : IsNameChar(toolSet[i][k])
       /\ \A i, j \in DOMAIN toolSet : i # j => toolSet[i] # toolSet[j]

\* C21: the assistant message persisted by the chat endpoint holds text of
\* the terminal (no tool call) model response only: no character of it was
\* streamed by a response that asked for a tool.
FinalReplyIsTerminalText ==
    \A i \in PersistedReplies :
       db[i].content # Placeholder =>
          \A k \in DOMAIN db[i].content : ~HasToolCalls(RespOf(db[i].content[k]))

\* C22: on the v1 endpoint with a `tools` name list, the bound tool set is
\* exactly the registry tools named in the list, minus web_search when it
\* is disabled; an empty list binds nothing and no tool outside the list
\* is bound.
V1BindsOnlyListedTools ==
    (pc # "start" /\ req.endpoint = "v1" /\ req.toolNames.defined) =>
       Range(tools) =
          (Range(req.toolNames.list) \cap Range(ALL_TOOLS))
             \ (IF req.webSearchEnabled THEN {} ELSE {webSearchTool})

\* the answer text the caller has received, in order
AnswerTexts == SelectSeq(emSent, LAMBDA it : it.kind = "answer")

\* C23: on the v1 endpoint and the plain-text route answer text is sent
\* only at the end of a model response without tool calls, in chunks of at
\* most chunkSize characters that concatenate, in order, to exactly that
\* response's accumulated text; `done` carries the same text; text of a
\* response with tool calls is never sent.
AnswerSentAsAccumulated ==
    /\ \A i \in DOMAIN AnswerTexts :
          /\ Len(AnswerTexts[i].text) <= chunkSize
          /\ \A k \in DOMAIN AnswerTexts[i].text :
                RespOf(AnswerTexts[i].text[k]) \notin emToolRounds
    /\ AnswerTexts # <<>> => emTerminal.defined
    /\ emTerminal.defined =>
          Concat([i \in DOMAIN AnswerTexts |-> AnswerTexts[i].text])
             = emTerminal.text
    /\ \A i \in DOMAIN emSent :
          emSent[i].kind = "done" => emSent[i].text = emTerminal.text

\* C29: when the event stream ends normally and no final reply was
\* captured, the placeholder is sent and stored; every request that
\* completes without error stores a non-empty assistant message, also when
\* tools were called.
PlaceholderWhenNoReply ==
    (emEndpoint = "plain" /\ emPc = "closed") =>
       /\ emStored.defined
       /\ emStored.content # <<>>
       /\ emTerminal.text = <<>> =>
             /\ emStored.content = Placeholder
             /\ \E i \in DOMAIN emSent : emSent[i].kind = "fallback"

\* C24: a user reads the messages of a session, or appends messages to it,
\* only if the session's user_id is the requester's user id.
MessagesIsolatedPerUser ==
    /\ \A u \in Users : \A m \in readBy[u] :
          chatSessions[m.session_id].user_id = u
    /\ \A m \in chatMessages : chatSessions[m.session_id].user_id = m.by
    /\ \A u \in Users : \A id \in listedTo[u] : chatSessions[id].user_id = u

\* C25: whatever the shape of an MCP tool result, the text handed to the
\* model after afterToolCall is non-empty text that forwards no raw base64
\* payload: image data is replaced by a Markdown link to a saved file or
\* by a failure placeholder.
NoRawPayloadHanded ==
    afterPc = "done" =>
       /\ handed # <<>>
       /\ \A i \in DOMAIN handed : handed[i].kind # "b64"

\* C26: every MCP connection opened by getMcpTools for a chat request is
\* closed by a cleanup call before the request is over, on every path:
\* when the request is over and a connection is still open, the cleanup
\* that closes it has been called.
ConnectionsCleanedUp ==
    (clPc = "over" /\ openConns # {}) =>
       (cleanupCalled /\ mcpCleanup = "close")

\* the events whose last character has been delivered
CompleteEvents == [i \in 1..(delivered \div Len(Frame(1))) |-> i]

\* C27: however the stream is split into network chunks, the client has
\* applied exactly the completely delivered events, each once and in
\* generation order; and when the stream is cut in the middle of an event,
\* what the earlier events produced stays as it was.
EventsAppliedOnceInOrder ==
    /\ ssePc = "reading" =>
          /\ applied = CompleteEvents
          /\ shown.present
          /\ shown.msg = ApplyAll(EmptyMessage, events, CompleteEvents)
    /\ (ssePc \in {"ended", "failed"}
          /\ ApplyAll(EmptyMessage, events, CompleteEvents) # EmptyMessage) =>
          /\ shown.present
          /\ shown.msg = ApplyAll(EmptyMessage, events, CompleteEvents)

\* a reasoning block is open after the first n events: the last of the
\* `thinking` / `thinking_end` events among them is a `thinking`
ThinkingOpen(n) ==
    \E i \in 1..n :
       /\ out[i].type = "thinking"
       /\ \A j \in (i + 1)..n : out[j].type # "thinking_end"

\* C28: on the session endpoint a `thinking_end` is emitted only when a
\* `thinking` was emitted since the previous `thinking_end`; an open
\* reasoning block is closed before the next `tool_start` and by the end of
\* the model response that produced it, so none is open when `done` is
\* emitted.
ThinkingBlocksClosed ==
    req.endpoint = "session" =>
       /\ \A i \in DOMAIN out :
             /\ out[i].type = "thinking_end" => ThinkingOpen(i - 1)
             /\ out[i].type \in {"tool_start", "done"} => ~ThinkingOpen(i - 1)
       /\ (pc = "stream" /\ agent.phase \in {"tools", "ended", "out_of_steps"})
             => ~ThinkingOpen(Len(out))

\* C28 witness: a reasoning block was closed in front of a tool_start and
\* the stream ended with `done`
ThinkingClosedBeforeTool ==
    /\ req.endpoint = "session"
    /\ pc = "closed"
    /\ out # <<>>
    /\ Last(out).type = "done"
    /\ \E i \in DOMAIN out :
          /\ out[i].type = "thinking_end"
          /\ \E k \in DOMAIN out : k > i /\ out[k].type = "tool_start"

\* C30: whenever initKnowledgeBase returns normally to a caller, the builder
\* or a caller that waited on the isInitializing flag, isInitialized is true
\* at that moment, whatever the outcome of the build; a waiting caller leaves
\* its polling loop only when the flag is down. (A caller is in "search"
\* exactly when its initKnowledgeBase call has returned normally.)
InitReturnsInitialized ==
    [][ \A c \in Callers :
           /\ (cpc[c] # "search" /\ cpc'[c] = "search") => isInitialized'
           /\ (cpc[c] = "waiting" /\ cpc'[c] # "waiting") => ~isInitializing
      ]_vars

====
